---- MODULE Spec2Model ----
(***************************************************************************)
(* apisix-registration: a Service registers itself as a node of an APISIX  *)
(* upstream through the Admin API (createUpstream / addNodeToUpstream /    *)
(* deleteNode), optionally serves a health check, and deregisters.         *)
(*                                                                         *)
(* The model has one process per (Service, calling thread).  Every HTTP    *)
(* request of the Admin API client is one atomic step against the gateway's *)
(* stored upstream documents; the steps of different processes interleave. *)
(***************************************************************************)
EXTENDS Integers, Sequences, FiniteSets, TLC

\* Number of lifecycle calls (Register, Deregister, StartHealthCheck,
\* Shutdown) made in one behaviour, over all threads.
MaxCalls == 3

\* Number of Admin API requests in one behaviour that the gateway or the
\* network fails (non-success status, transport error, malformed body).
MaxFaults == 1

Instances == {"i1", "i2"}
Threads == {"t1", "t2"}
Procs == Instances \X Threads

InstOf(p) == p[1]
ThreadOf(p) == p[2]

-----------------------------------------------------------------------------
(* Configuration values the Services are constructed from.                 *)

SharedId == "up"
AdminURL == "http://apisix-admin:9180/apisix/admin"
ServiceName == "svc"
ServiceHost == "10.0.0.5"
PortOf == ("i1" :> 9000) @@ ("i2" :> 9001)

\* A node that some other party stored in the upstream before any Service
\* of the model registered, with a weight other than 1.
LegacyKey == "10.0.0.9:80"
LegacyDoc == [present |-> TRUE, name |-> "legacy", type |-> "chash",
              nodes |-> (LegacyKey :> 2)]

\* HealthCfg.Route values, cfg.HealthHandler values and cfg.HTTPServer values.
\* A HealthHandler is nil, an adapter that hands the path and the handler
\* to the caller's router ("user": a GoZeroHealthHandler or an adapter of
\* the caller's own), a GinHealthHandler ("gin"), a StandardHealthHandler
\* around the Service's external http.Server ("standard") or a
\* StandardHealthHandler whose Server is nil ("standardNil").  An HTTPServer
\* is nil or the external server ("srv").
Routes == {"", "/hz"}
HealthHandlers == {"nil", "user", "gin", "standard", "standardNil"}
HTTPServers == {"nil", "srv"}

\* Config (the fields New reads) of a Service that uses no health adapter.
Configs(i) ==
    {[Name |-> n, Host |-> h, Port |-> pt, UpstreamId |-> u, HealthEnabled |-> e,
      Route |-> "", HealthHandler |-> "nil", HTTPServer |-> "nil"] :
        n \in {ServiceName, ""}, h \in {ServiceHost}, pt \in {PortOf[i]},
        u \in {"", SharedId}, e \in BOOLEAN}

\* Config values of every kind: required fields missing, adapters given.
AnyConfigs(i) ==
    {[Name |-> n, Host |-> h, Port |-> pt, UpstreamId |-> u, HealthEnabled |-> e,
      Route |-> r, HealthHandler |-> hh, HTTPServer |-> hs] :
        n \in {ServiceName, ""}, h \in {ServiceHost, ""}, pt \in {PortOf[i], 0, -1},
        u \in {"", SharedId}, e \in BOOLEAN, r \in Routes,
        hh \in HealthHandlers, hs \in HTTPServers}

-----------------------------------------------------------------------------
(* Errors.                                                                 *)

Nil == "nil"
ErrInvalidConfig == "ErrInvalidConfig"
ErrEmptyHost == "ErrEmptyHost"
ErrInvalidPort == "ErrInvalidPort"
ErrEmptyAdminAPI == "ErrEmptyAdminAPI"
ErrCreateUpstream == "ErrCreateUpstream"
ErrDeleteNode == "ErrDeleteNode"
ErrStartHealthCheck == "ErrStartHealthCheck"
ErrShutdownServer == "ErrShutdownServer"

-----------------------------------------------------------------------------
(* Formatting.                                                             *)

\* fmt.Sprintf("%s:%d", host, port)
NodeKey(host, port) == host \o ":" \o ToString(port)

\* Mutant: the host is left out of the derived id.
DerivedUpstreamIdNoHost(name, host, port) == name \o "_" \o ToString(port)

\* fmt.Sprintf("%s_%s_%d", cfg.Name, cfg.Host, cfg.Port)
DerivedUpstreamId(name, host, port) ==
    name \o "_" \o host \o "_" \o ToString(port)

-----------------------------------------------------------------------------
(* New.                                                                    *)

NoService == [name |-> "", host |-> "", port |-> 0, upstreamID |-> "",
              healthCheck |-> FALSE]

DefaultHealthCheckRoute == "/health"

\* newHealthService: no custom handler, no server of its own (server is
\* the number of the self-hosted http.Server h.server points to, 0 for
\* nil), the default health path.
NewHealthService ==
    [customHandler |-> "nil", server |-> 0, healthPath |-> "/health"]

\* healthService.setCustomHandler
SetCustomHandler(h, handler, healthPath) ==
    [h EXCEPT !.customHandler = handler,
              !.healthPath = IF healthPath # "" THEN healthPath ELSE @]

\* healthService.setCustomServer
SetCustomServer(h, server, healthPath) ==
    IF server # "nil"
    THEN [h EXCEPT !.customHandler = "standard",
                   !.healthPath = IF healthPath # "" THEN healthPath ELSE @]
    ELSE h

\* Mutant: the HTTPServer is looked at before the HealthHandler.
BindHealthServerFirst(c, route) ==
    IF c.HTTPServer # "nil"
    THEN SetCustomServer(NewHealthService, c.HTTPServer, route)
    ELSE IF c.HealthHandler # "nil"
    THEN SetCustomHandler(NewHealthService, c.HealthHandler, route)
    ELSE NewHealthService

\* New: the health service it builds from cfg.HealthHandler, cfg.HTTPServer
\* and the health route (defaulted only when health checking is enabled).
BindHealth(c, route) ==
    IF c.HealthHandler # "nil"
    THEN SetCustomHandler(NewHealthService, c.HealthHandler, route)
    ELSE IF c.HTTPServer # "nil"
    THEN SetCustomServer(NewHealthService, c.HTTPServer, route)
    ELSE NewHealthService

NoHealthService == [customHandler |-> "nil", server |-> 0, healthPath |-> ""]

\* Mutant: the port is checked before the name.
NewPortFirst(c) ==
    IF c.Port <= 0
    THEN [svc |-> NoService, health |-> NoHealthService, err |-> ErrInvalidPort]
    ELSE IF c.Name = ""
    THEN [svc |-> NoService, health |-> NoHealthService, err |-> ErrInvalidConfig]
    ELSE IF c.Host = ""
    THEN [svc |-> NoService, health |-> NoHealthService, err |-> ErrEmptyHost]
    ELSE [svc |-> [name |-> c.Name, host |-> c.Host, port |-> c.Port,
                   upstreamID |-> IF c.UpstreamId = ""
                                  THEN DerivedUpstreamId(c.Name, c.Host, c.Port)
                                  ELSE c.UpstreamId,
                   healthCheck |-> c.HealthEnabled],
          health |-> BindHealth(c, IF c.HealthEnabled /\ c.Route = ""
                                   THEN DefaultHealthCheckRoute ELSE c.Route),
          err |-> Nil]

\* Mutant: an empty host is replaced by the loopback address.
NewDefaultHost(c) ==
    IF c.Name = ""
    THEN [svc |-> NoService, health |-> NoHealthService, err |-> ErrInvalidConfig]
    ELSE IF c.Port <= 0
    THEN [svc |-> NoService, health |-> NoHealthService, err |-> ErrInvalidPort]
    ELSE [svc |-> [name |-> c.Name,
                   host |-> IF c.Host = "" THEN "127.0.0.1" ELSE c.Host,
                   port |-> c.Port,
                   upstreamID |-> IF c.UpstreamId = ""
                                  THEN DerivedUpstreamId(c.Name, c.Host, c.Port)
                                  ELSE c.UpstreamId,
                   healthCheck |-> c.HealthEnabled],
          health |-> BindHealth(c, IF c.HealthEnabled /\ c.Route = ""
                                   THEN DefaultHealthCheckRoute ELSE c.Route),
          err |-> Nil]

\* Mutant: the upstream id is derived whether or not the Config gives one.
NewDerivedAlways(c) ==
    IF c.Name = ""
    THEN [svc |-> NoService, health |-> NoHealthService, err |-> ErrInvalidConfig]
    ELSE IF c.Host = ""
    THEN [svc |-> NoService, health |-> NoHealthService, err |-> ErrEmptyHost]
    ELSE IF c.Port <= 0
    THEN [svc |-> NoService, health |-> NoHealthService, err |-> ErrInvalidPort]
    ELSE [svc |-> [name |-> c.Name, host |-> c.Host, port |-> c.Port,
                   upstreamID |-> DerivedUpstreamId(c.Name, c.Host, c.Port),
                   healthCheck |-> c.HealthEnabled],
          health |-> BindHealth(c, IF c.HealthEnabled /\ c.Route = ""
                                   THEN DefaultHealthCheckRoute ELSE c.Route),
          err |-> Nil]

\* New(cfg): the (*Service, error) pair it returns, the Service being its
\* plain fields (svc) and its health service (health).
New(c) ==
    IF c.Name = ""
    THEN [svc |-> NoService, health |-> NoHealthService, err |-> ErrInvalidConfig]
    ELSE IF c.Host = ""
    THEN [svc |-> NoService, health |-> NoHealthService, err |-> ErrEmptyHost]
    ELSE IF c.Port <= 0
    THEN [svc |-> NoService, health |-> NoHealthService, err |-> ErrInvalidPort]
    ELSE [svc |-> [name |-> c.Name, host |-> c.Host, port |-> c.Port,
                   upstreamID |-> IF c.UpstreamId = ""
                                  THEN DerivedUpstreamId(c.Name, c.Host, c.Port)
                                  ELSE c.UpstreamId,
                   healthCheck |-> c.HealthEnabled],
          health |-> BindHealth(c, IF c.HealthEnabled /\ c.Route = ""
                                   THEN DefaultHealthCheckRoute ELSE c.Route),
          err |-> Nil]

\* Every upstream id a Service of the model can hold.
UpstreamIds == {New(c).svc.upstreamID : c \in UNION {Configs(i) : i \in Instances}}

-----------------------------------------------------------------------------
(* JSON values of the "nodes" object as the client holds them after        *)
(* json.Unmarshal into map[string]interface{}: <<w>> is the number w,      *)
(* <<>> is null.                                                           *)

JNum(w) == <<w>>
JNull == <<>>

EmptyNodes == [k \in {} |-> 1]

\* The upstream document as the gateway returns it under "value".
EncodeDoc(doc) ==
    [name |-> doc.name, type |-> doc.type,
     nodes |-> [k \in DOMAIN doc.nodes |-> JNum(doc.nodes[k])]]

NoValue == [name |-> "", type |-> "", nodes |-> EmptyNodes]

-----------------------------------------------------------------------------
(* The gateway's Admin API, as far as the client uses it.                  *)

AbsentDoc == [present |-> FALSE, name |-> "", type |-> "", nodes |-> EmptyNodes]

\* GET /upstreams/{id}
GatewayGet(g, id) ==
    IF g[id].present
    THEN [err |-> FALSE, status |-> 200, wellformed |-> TRUE, value |-> EncodeDoc(g[id])]
    ELSE [err |-> FALSE, status |-> 404, wellformed |-> TRUE, value |-> NoValue]

\* Mutant: PUT merges the nodes of the body into the stored ones.
GatewayPutMerge(g, id, body) ==
    LET old == g[id].nodes
        kept == {k \in DOMAIN old \cup DOMAIN body.nodes :
                    IF k \in DOMAIN body.nodes THEN body.nodes[k] # JNull ELSE TRUE}
    IN [g EXCEPT ![id] =
        [present |-> TRUE, name |-> body.name, type |-> body.type,
         nodes |-> [k \in kept |-> IF k \in DOMAIN body.nodes
                                   THEN body.nodes[k][1] ELSE old[k]]]]

\* PUT /upstreams/{id}: the document is replaced by the body, not merged.
GatewayPut(g, id, body) ==
    [g EXCEPT ![id] =
        [present |-> TRUE, name |-> body.name, type |-> body.type,
         nodes |-> [k \in {n \in DOMAIN body.nodes : body.nodes[n] # JNull}
                        |-> body.nodes[k][1]]]]

\* Mutant: a key whose value is null in the body is left as it is stored.
GatewayPatchNullKept(g, id, body) ==
    LET old == g[id].nodes
        set == {k \in DOMAIN body.nodes : body.nodes[k] # JNull}
    IN [g EXCEPT ![id] =
        [present |-> TRUE, name |-> body.name, type |-> body.type,
         nodes |-> [k \in DOMAIN old \cup set |->
                        IF k \in set THEN body.nodes[k][1] ELSE old[k]]]]

\* PATCH /upstreams/{id}: the body is merged into the stored document; a
\* key of an object whose value is null is removed.
GatewayPatch(g, id, body) ==
    LET old == g[id].nodes
        kept == {k \in DOMAIN old \cup DOMAIN body.nodes :
                    IF k \in DOMAIN body.nodes THEN body.nodes[k] # JNull ELSE TRUE}
    IN [g EXCEPT ![id] =
        [present |-> TRUE, name |-> body.name, type |-> body.type,
         nodes |-> [k \in kept |-> IF k \in DOMAIN body.nodes
                                   THEN body.nodes[k][1] ELSE old[k]]]]

-----------------------------------------------------------------------------
(* The Admin API client: what each function decides from a response and    *)
(* what it sends.                                                          *)

\* Mutant: a status other than 200 is taken to mean that the upstream does
\* not exist.
CheckUpstreamExistsLenient(r) ==
    IF r.err THEN [exists |-> FALSE, err |-> TRUE]
    ELSE IF r.status = 200 THEN [exists |-> TRUE, err |-> FALSE]
    ELSE [exists |-> FALSE, err |-> FALSE]

\* checkUpstreamExists: (exists, err) from the GET's response.
CheckUpstreamExists(r) ==
    IF r.err THEN [exists |-> FALSE, err |-> TRUE]
    ELSE IF r.status = 404 THEN [exists |-> FALSE, err |-> FALSE]
    ELSE IF r.status = 200 THEN [exists |-> TRUE, err |-> FALSE]
    ELSE [exists |-> FALSE, err |-> TRUE]

\* createUpstream: the document PUT when the upstream does not exist.
CreateBody(name, nodeKey) ==
    [name |-> name, type |-> "roundrobin", nodes |-> (nodeKey :> JNum(1))]

\* createUpstream / addNodeToUpstream / deleteNode: whether a write's
\* response counts as success.
WriteSucceeded(r) == ~r.err /\ (r.status = 201 \/ r.status = 200)

\* Mutant: the node is not looked for; it is always added and PUT.
AddNodeDecisionNoLookup(r, nodeKey) ==
    IF r.err THEN "err"
    ELSE IF r.status # 200 THEN "err"
    ELSE IF ~r.wellformed THEN "err"
    ELSE "put"

\* addNodeToUpstream up to the existence check of the node: "err", "nil"
\* (node already there, nothing to do) or "put".
AddNodeDecision(r, nodeKey) ==
    IF r.err THEN "err"
    ELSE IF r.status # 200 THEN "err"
    ELSE IF ~r.wellformed THEN "err"
    ELSE IF nodeKey \in DOMAIN r.value.nodes THEN "nil"
    ELSE "put"

\* Mutant: the node map is rebuilt with weight 1 for every node.
AddNodeReweigh(value, nodeKey) ==
    [value EXCEPT !.nodes =
        [k \in DOMAIN value.nodes \cup {nodeKey} |-> JNum(1)]]

\* Mutant: the node map is replaced by one holding the own node alone.
AddNodeOnly(value, nodeKey) ==
    [value EXCEPT !.nodes = (nodeKey :> JNum(1))]

\* addNodeToUpstream: nodes[nodeKey] = float64(1) on the fetched value,
\* which is then PUT back whole.
AddNode(value, nodeKey) ==
    [value EXCEPT !.nodes =
        [k \in DOMAIN value.nodes \cup {nodeKey} |->
            IF k = nodeKey THEN JNum(1) ELSE value.nodes[k]]]

\* Mutant: an absent upstream (404) is an error like any other status.
DeleteNodeDecisionStrict(r, node) ==
    IF r.err THEN "err"
    ELSE IF r.status # 200 THEN "err"
    ELSE IF ~r.wellformed THEN "err"
    ELSE IF node \notin DOMAIN r.value.nodes THEN "nil"
    ELSE "patch"

\* deleteNode up to the existence check of the node: "err", "nil"
\* (upstream or node absent, nothing to do) or "patch".
DeleteNodeDecision(r, node) ==
    IF r.err THEN "err"
    ELSE IF r.status = 404 THEN "nil"
    ELSE IF r.status # 200 THEN "err"
    ELSE IF ~r.wellformed THEN "err"
    ELSE IF node \notin DOMAIN r.value.nodes THEN "nil"
    ELSE "patch"

\* Mutant: the node map is rebuilt with weight 1 for every other node.
RemoveNodeReweigh(value, node) ==
    [value EXCEPT !.nodes = [k \in DOMAIN value.nodes |->
                                IF k = node THEN JNull ELSE JNum(1)]]

\* Mutant: delete(nodes, node) instead of nodes[node] = nil.
RemoveNodeByDelete(value, node) ==
    [value EXCEPT !.nodes = [k \in DOMAIN value.nodes \ {node} |-> value.nodes[k]]]

\* Mutant: of the fetched nodes only the node to remove is sent.
RemoveNodeOwnKeyOnly(value, node) ==
    [value EXCEPT !.nodes = (node :> JNull)]

\* Mutant: the node to remove is given weight 0 instead of null.
RemoveNodeZeroWeight(value, node) ==
    [value EXCEPT !.nodes = [k \in DOMAIN value.nodes |->
                                IF k = node THEN JNum(0) ELSE value.nodes[k]]]

\* deleteNode: nodes[node] = nil on the fetched value, which is then sent
\* whole as the PATCH body.
RemoveNode(value, node) ==
    [value EXCEPT !.nodes = [k \in DOMAIN value.nodes |->
                                IF k = node THEN JNull ELSE value.nodes[k]]]

\* DELETE /upstreams/{id}
GatewayDelete(g, id) == [g EXCEPT ![id] = AbsentDoc]

\* Mutant: the upstream is deleted when the removed node was its last one
\* (the branch deleteNode has commented out).
DeleteNodeOrUpstream(g, id, body) ==
    IF \A k \in DOMAIN body.nodes : body.nodes[k] = JNull
    THEN GatewayDelete(g, id)
    ELSE GatewayPatch(g, id, body)

\* deleteNode: the request it issues to remove the node and its effect on
\* the gateway (a PATCH of the upstream; the upstream is not deleted).
DeleteNodeRequest(g, id, body) == GatewayPatch(g, id, body)

\* Mutant: the lock is not released.
UnlockForgotten(m, i) == m

\* defer s.mu.Unlock()
Unlock(m, i) == [m EXCEPT ![i] = "free"]

-----------------------------------------------------------------------------
(* The health integration layer.                                           *)

\* The Handler field of an http.Server: base is the handler the owner of
\* the server installed ("nil" when the field is nil, "app" otherwise),
\* wraps the health paths of the dispatchers wrapped around it since, the
\* outermost last.
NilHandler == [base |-> "nil", wraps |-> <<>>]
AppHandler == [base |-> "app", wraps |-> <<>>]

IsNilHandler(handler) == handler.base = "nil" /\ handler.wraps = <<>>

\* Paths of the requests a server gets.
RequestPaths == {"/health", "/hz", "/api"}

\* Handler.ServeHTTP for a request of the given path: who answers it.  The
\* dispatcher of RegisterHealthCheck answers its path with the health
\* response and passes every other path to the handler it wrapped.
RECURSIVE ServeHTTP(_, _)
ServeHTTP(handler, path) ==
    IF handler.wraps = <<>> THEN handler.base
    ELSE IF path = handler.wraps[Len(handler.wraps)] THEN "health"
    ELSE ServeHTTP([handler EXCEPT !.wraps = SubSeq(@, 1, Len(@) - 1)], path)

\* Mutant: the dispatcher replaces the existing handler instead of
\* wrapping it.
StandardRegisterHealthCheckReplace(present, handler, path) ==
    IF ~present THEN [Handler |-> handler, err |-> TRUE]
    ELSE IF IsNilHandler(handler) THEN [Handler |-> handler, err |-> TRUE]
    ELSE [Handler |-> [base |-> "nil", wraps |-> <<path>>], err |-> FALSE]

\* StandardHealthHandler.RegisterHealthCheck(path, handler): present is
\* whether h.Server is non-nil, handler its Handler field.
StandardRegisterHealthCheck(present, handler, path) ==
    IF ~present THEN [Handler |-> handler, err |-> TRUE]
    ELSE IF IsNilHandler(handler) THEN [Handler |-> handler, err |-> TRUE]
    ELSE [Handler |-> [handler EXCEPT !.wraps = Append(@, path)], err |-> FALSE]

\* The value of the X-Service-Name header of a request ("" when the request
\* has none).
RequestHeaders == {"", ServiceName, "other"}

\* defaultHealthResponse(serviceName), without its time field.
DefaultHealthResponse(serviceName) == [status |-> "ok", service |-> serviceName]

\* healthService.healthCheckHandler, the handler registerHealthCheck hands
\* to the adapter: status 200 and the default response for h.serviceName,
\* which newHealthService set to cfg.Name.
HealthCheckHandler(serviceName, header) ==
    [code |-> 200, body |-> DefaultHealthResponse(serviceName)]

\* The route startNewServer adds to its own router.
SelfHostedRoute(serviceName, header) ==
    [code |-> 200, body |-> [status |-> "ok", service |-> serviceName]]

\* The route GinHealthHandler.RegisterHealthCheck adds to the engine: the
\* handler it was given is not used, the service of the response is the
\* request's X-Service-Name header.
GinRoute(serviceName, header) ==
    [code |-> 200, body |-> DefaultHealthResponse(header)]

\* A route on the router of the caller: its path and what answers it, the
\* handler that was handed over or the closure of the Gin adapter.
Route(path, answers) == [path |-> path, answers |-> answers]

\* What a route answers a request with.
Answer(route, serviceName, header) ==
    IF route.answers = "gin" THEN GinRoute(serviceName, header)
    ELSE HealthCheckHandler(serviceName, header)

\* GinHealthHandler.RegisterHealthCheck(path, handler): present is whether
\* h.Engine is non-nil.  Engine.GET panics when the path has a GET route.
GinRegisterHealthCheck(present, routes, path) ==
    IF ~present THEN [routes |-> routes, err |-> TRUE, panic |-> FALSE]
    ELSE IF \E r \in routes : r.path = path
    THEN [routes |-> routes, err |-> FALSE, panic |-> TRUE]
    ELSE [routes |-> routes \cup {Route(path, "gin")}, err |-> FALSE,
          panic |-> FALSE]

\* GoZeroHealthHandler.RegisterHealthCheck(path, handler): registered is
\* whether RegisterRoute is non-nil and returned nil.
RouterRegisterHealthCheck(registered, routes, path) ==
    IF ~registered THEN [routes |-> routes, err |-> TRUE, panic |-> FALSE]
    ELSE [routes |-> routes \cup {Route(path, "handler")}, err |-> FALSE,
          panic |-> FALSE]

\* healthService.registerHealthCheck: customHandler.RegisterHealthCheck is
\* called with the health path and h.healthCheckHandler; mounted is
\* whether an adapter of the caller's own has what it registers on and
\* returned nil.
RegisterHealthCheck(h, handler, routes, mounted) ==
    IF h.customHandler \in {"standard", "standardNil"}
    THEN LET r == StandardRegisterHealthCheck(h.customHandler = "standard",
                                              handler, h.healthPath)
         IN [Handler |-> r.Handler, routes |-> routes, err |-> r.err,
             panic |-> FALSE]
    ELSE LET r == IF h.customHandler = "gin"
                  THEN GinRegisterHealthCheck(mounted, routes, h.healthPath)
                  ELSE RouterRegisterHealthCheck(mounted, routes, h.healthPath)
         IN [Handler |-> handler, routes |-> r.routes, err |-> r.err,
             panic |-> r.panic]

\* healthService.startNewServer: a new http.Server is created, h.server
\* points to it and ListenAndServe is started on it in a goroutine; bound
\* is whether it gets the port.  The function returns nil either way.
StartNewServer(h, ls, bound) ==
    [h |-> [h EXCEPT !.server = Len(ls) + 1],
     listeners |-> Append(ls, IF bound THEN "serving" ELSE "failed"),
     err |-> FALSE]

\* healthService.start: with a custom handler the route is registered on
\* it, otherwise startNewServer creates and starts a listener.  mounts is
\* the number of RegisterHealthCheck calls made.
HealthStart(h, handler, routes, ls, mounted, bound) ==
    IF h.customHandler # "nil"
    THEN LET r == RegisterHealthCheck(h, handler, routes, mounted) IN
         [h |-> h, Handler |-> r.Handler, routes |-> r.routes, listeners |-> ls,
          err |-> r.err, panic |-> r.panic, mounts |-> 1]
    ELSE LET n == StartNewServer(h, ls, bound) IN
         [h |-> n.h, Handler |-> handler, routes |-> routes,
          listeners |-> n.listeners, err |-> n.err, panic |-> FALSE,
          mounts |-> 0]

\* http.Server.Shutdown(ctx) on a self-hosted server in state l: the
\* listener is closed at once; served is whether the connections went
\* idle and the listener closed without an error before ctx was done.  A
\* server a former Shutdown left draining is waited for again.
ServerShutdown(l, served) ==
    IF l \in {"serving", "draining"}
    THEN IF served THEN [l |-> "closed", err |-> FALSE]
         ELSE [l |-> "draining", err |-> TRUE]
    ELSE [l |-> l, err |-> FALSE]

\* Mutant: the server of its own is shut down whether or not a custom
\* handler is set.
HealthShutdownOwnAlways(h, ls, served) ==
    IF h.server = 0 THEN [listeners |-> ls, err |-> FALSE, attempts |-> 0]
    ELSE LET sd == ServerShutdown(ls[h.server], served) IN
         [listeners |-> [ls EXCEPT ![h.server] = sd.l], err |-> sd.err,
          attempts |-> 1]

\* healthService.shutdown(ctx): a custom handler is left to its owner; a
\* server of its own is shut down.  attempts is the number of
\* server.Shutdown calls made.
HealthShutdown(h, ls, served) ==
    IF h.customHandler # "nil" THEN [listeners |-> ls, err |-> FALSE, attempts |-> 0]
    ELSE IF h.server = 0 THEN [listeners |-> ls, err |-> FALSE, attempts |-> 0]
    ELSE LET sd == ServerShutdown(ls[h.server], served) IN
         [listeners |-> [ls EXCEPT ![h.server] = sd.l], err |-> sd.err,
          attempts |-> 1]

\* context.WithTimeout(context.Background(), DefaultShutdownTimeout), in
\* seconds; 0 stands for a context without a deadline.
DefaultShutdownTimeout == 3
CallerTimeouts == {0, 1}

-----------------------------------------------------------------------------
VARIABLES
    cfg,          \* Instances -> Config given to New
    svc,          \* Instances -> the Service New returned (its plain fields)
    newErr,       \* Instances -> the error New returned
    healthSvc,    \* Instances -> s.healthSvc: customHandler, server
    mu,           \* Instances -> s.mu: "free" or the thread holding it
    gateway,      \* UpstreamIds -> the upstream document the gateway stores
    pc,           \* Procs -> where the thread is in its current call
    op,           \* Procs -> the lifecycle method last called
    adminArg,     \* Procs -> the adminAPI argument of the current call
    fetched,      \* Procs -> upstreamValue / upstreamData["value"] held by the call
    result,       \* Procs -> the error the last call returned
    calls,        \* lifecycle calls made so far
    faults,       \* failed Admin API requests so far
    sent,         \* Procs -> the status of the last response and the times its request was sent
    writes,       \* Procs -> PUT/PATCH requests the current call has issued
    joined,       \* Instances -> its last Register succeeded and nothing wrote the upstream since
    sawJoined,    \* Procs -> the instances that were joined when the call entered its body
    undisturbed,  \* Procs -> no other process wrote the upstream since the call entered its body
    httpServer,   \* Instances -> the Handler field of the external http.Server
    router,       \* Instances -> the routes mounted on the router of the caller's adapter
    listeners,    \* Instances -> the self-hosted http.Servers created so far, each one's state
    healthLog,    \* Instances -> what the health service has been asked to do so far
    ctxArg,       \* Procs -> the timeout of the ctx argument of the current Shutdown call
    start,        \* Procs -> where the thread is in StartWithGracefulShutdown
    handler,      \* Instances -> the signal goroutine StartWithGracefulShutdown started
    ctx,          \* Instances -> s.ctx: "live" or "canceled"
    signal        \* SIGINT / SIGTERM has been delivered to the process

vars == <<cfg, svc, newErr, healthSvc, mu, gateway, pc, op, adminArg, fetched,
          result, calls, faults, sent, writes, joined, sawJoined, undisturbed,
          httpServer, router, listeners, healthLog, ctxArg, start, handler, ctx,
          signal>>

health == <<healthSvc, httpServer, router, listeners, healthLog>>
lifecycle == <<start, handler, ctx, signal>>

UpstreamOf(p) == svc[InstOf(p)].upstreamID
KeyOf(i) == NodeKey(svc[i].host, svc[i].port)

\* New has not been called.
NotCalled == "not called"

NoResponse == [status |-> 0, attempts |-> 0]
NoLog == [starts |-> 0, mounts |-> 0, shutdowns |-> 0, err |-> FALSE]
NoStart == [at |-> "none", adminAPI |-> "", err |-> Nil]
NoGoroutine == [at |-> "none", adminAPI |-> "", log |-> <<>>]

\* The state in which New has been called with cf[i] for the instances of
\* built and for no other.
InitWith(cf, built) ==
    /\ cfg = cf
    /\ svc = [i \in Instances |-> IF i \in built THEN New(cf[i]).svc ELSE NoService]
    /\ newErr = [i \in Instances |-> IF i \in built THEN New(cf[i]).err ELSE NotCalled]
    /\ healthSvc = [i \in Instances |->
                       IF i \in built THEN New(cf[i]).health ELSE NoHealthService]
    /\ mu = [i \in Instances |-> "free"]
    /\ pc = [p \in Procs |-> "idle"]
    /\ op = [p \in Procs |-> "none"]
    /\ adminArg = [p \in Procs |-> ""]
    /\ fetched = [p \in Procs |-> NoValue]
    /\ result = [p \in Procs |-> Nil]
    /\ calls = 0
    /\ faults = 0
    /\ sent = [p \in Procs |-> NoResponse]
    /\ writes = [p \in Procs |-> 0]
    /\ joined = [i \in Instances |-> FALSE]
    /\ sawJoined = [p \in Procs |-> {}]
    /\ undisturbed = [p \in Procs |-> TRUE]
    /\ router = [i \in Instances |-> {}]
    /\ listeners = [i \in Instances |-> <<>>]
    /\ healthLog = [i \in Instances |-> NoLog]
    /\ ctxArg = [p \in Procs |-> 0]
    /\ start = [p \in Procs |-> NoStart]
    /\ handler = [i \in Instances |-> NoGoroutine]
    /\ ctx = [i \in Instances |-> "live"]
    /\ signal = FALSE

Init ==
    /\ \E c1 \in Configs("i1"), c2 \in Configs("i2") :
          InitWith(("i1" :> c1) @@ ("i2" :> c2), Instances)
    /\ httpServer = [i \in Instances |-> AppHandler]
    /\ gateway \in [UpstreamIds -> {AbsentDoc, LegacyDoc}]
    /\ \A id \in UpstreamIds :
          (\A i \in Instances : svc[i].upstreamID # id) => gateway[id] = AbsentDoc

-----------------------------------------------------------------------------
(* Responses the client can get.                                           *)

FailedGets ==
    {[err |-> TRUE, status |-> 0, wellformed |-> FALSE, value |-> NoValue],
     [err |-> FALSE, status |-> 500, wellformed |-> TRUE, value |-> NoValue],
     [err |-> FALSE, status |-> 200, wellformed |-> FALSE, value |-> NoValue]}

\* The responses a GET of upstream id can get now.
GetResponses(id) ==
    {GatewayGet(gateway, id)} \cup (IF faults < MaxFaults THEN FailedGets ELSE {})

\* A write is applied and answered, refused with a status, or its response
\* is lost (the request having reached the gateway or not).
WriteOutcomes ==
    {"applied"} \cup
    (IF faults < MaxFaults THEN {"refused", "lost", "applied_lost"} ELSE {})

WriteApplied(o) == o \in {"applied", "applied_lost"}

WriteResponse(o, existed) ==
    IF o = "applied" THEN [err |-> FALSE, status |-> IF existed THEN 200 ELSE 201]
    ELSE IF o = "refused" THEN [err |-> FALSE, status |-> 500]
    ELSE [err |-> TRUE, status |-> 0]

CountFault(failed) == faults' = IF failed THEN faults + 1 ELSE faults

\* SetRetryCount(defaultRetryCount)
DefaultRetryCount == 3

\* Whether the client reissues a request: newAPIClient adds no retry
\* condition, so a request is retried only when it returned an error (no
\* response); a response is returned to the caller whatever its status.
NeedsRetry(r) == r.err

\* The times a request whose attempts all had outcome r has been sent when
\* the client returns r: a request of the model is one Execute of the
\* client, and a transport error is the outcome after every retry failed.
Attempts(r) == IF NeedsRetry(r) THEN DefaultRetryCount + 1 ELSE 1

\* p's request got r.
Record(p, r) ==
    sent' = [sent EXCEPT ![p] = [status |-> r.status, attempts |-> Attempts(r)]]

\* What a write by p that reached the gateway means for the others.
Disturb(p, applied) ==
    undisturbed' = [q \in Procs |->
        IF applied /\ q # p /\ pc[q] # "idle" /\ UpstreamOf(q) = UpstreamOf(p)
        THEN FALSE ELSE undisturbed[q]]

JoinedAfter(p, applied, nowJoined) ==
    [j \in Instances |->
        IF j = InstOf(p) THEN nowJoined
        ELSE IF applied /\ svc[j].upstreamID = UpstreamOf(p) THEN FALSE
        ELSE joined[j]]

-----------------------------------------------------------------------------
(* Steps of a call.                                                        *)

config == <<cfg, svc, newErr>>

\* Register / Deregister / StartHealthCheck return err; the deferred
\* Unlock runs and the call's locals are gone.
Return(p, err) ==
    /\ pc' = [pc EXCEPT ![p] = "idle"]
    /\ result' = [result EXCEPT ![p] = err]
    /\ adminArg' = [adminArg EXCEPT ![p] = ""]
    /\ fetched' = [fetched EXCEPT ![p] = NoValue]
    /\ sawJoined' = [sawJoined EXCEPT ![p] = {}]
    /\ ctxArg' = [ctxArg EXCEPT ![p] = 0]
    /\ mu' = Unlock(mu, InstOf(p))

\* The call goes on to its next request, holding value.
Goto(p, label, value) ==
    /\ pc' = [pc EXCEPT ![p] = label]
    /\ fetched' = [fetched EXCEPT ![p] = value]
    /\ UNCHANGED <<result, adminArg, ctxArg, mu, sawJoined>>

\* Method m of the Service is entered on thread p with adminAPI argument a
\* and a ctx argument of timeout d.
Invoke(p, m, a, d) ==
    /\ pc' = [pc EXCEPT ![p] = m]
    /\ op' = [op EXCEPT ![p] = m]
    /\ adminArg' = [adminArg EXCEPT ![p] = a]
    /\ ctxArg' = [ctxArg EXCEPT ![p] = d]
    /\ UNCHANGED <<config, health, mu, gateway, fetched, result, faults, sent,
                   writes, joined, sawJoined, undisturbed, ctx, signal>>

\* StartWithGracefulShutdown returns err.
Started(err) == [at |-> "returned", adminAPI |-> "", err |-> err]

\* The thread is free to make a call of its own: it is in no call, not
\* inside StartWithGracefulShutdown, and New returned its Service.
Free(p) ==
    /\ pc[p] = "idle" /\ start[p].at \in {"none", "returned"}
    /\ newErr[InstOf(p)] = Nil /\ calls < MaxCalls

\* A thread calls method m of its Service.
Call(p, m, a, d) ==
    /\ Free(p)
    /\ Invoke(p, m, a, d)
    /\ calls' = calls + 1
    /\ UNCHANGED <<start, handler>>

\* s.mu.Lock() succeeds and the body of Register / Deregister begins.
EnterBody(p) ==
    /\ mu[InstOf(p)] = "free"
    /\ writes' = [writes EXCEPT ![p] = 0]
    /\ undisturbed' = [undisturbed EXCEPT ![p] = TRUE]

\* The call holds s.mu and goes on to its first request.
Locked(p, label) ==
    /\ mu' = [mu EXCEPT ![InstOf(p)] = ThreadOf(p)]
    /\ pc' = [pc EXCEPT ![p] = label]
    /\ sawJoined' = [sawJoined EXCEPT ![p] = {j \in Instances : joined[j]}]
    /\ UNCHANGED <<result, adminArg, ctxArg, fetched>>

-----------------------------------------------------------------------------
(* Register.                                                               *)

\* Mutant: the adminAPI argument is not looked at.
EmptyAdminAPINever(a) == FALSE

\* if adminAPI == "" in Register and Deregister
EmptyAdminAPI(a) == a = ""

RegisterCall(p) == \E a \in {"", AdminURL} : Call(p, "Register", a, 0)

\* Register from s.mu.Lock() to the call of createUpstream.
RegisterEnter(p) ==
    /\ pc[p] = "Register"
    /\ EnterBody(p)
    /\ IF EmptyAdminAPI(adminArg[p])
       THEN Return(p, ErrEmptyAdminAPI)
       ELSE Locked(p, "checkUpstreamExists")
    /\ UNCHANGED <<config, lifecycle, health, gateway, op, calls, faults, sent, joined>>

\* createUpstream: checkUpstreamExists.
CreateUpstreamCheck(p) ==
    /\ pc[p] = "checkUpstreamExists"
    /\ \E r \in GetResponses(UpstreamOf(p)) :
          LET c == CheckUpstreamExists(r) IN
          /\ CountFault(r \in FailedGets)
          /\ Record(p, r)
          /\ IF c.err THEN Return(p, ErrCreateUpstream)
             ELSE IF c.exists THEN Goto(p, "addNodeToUpstream", NoValue)
             ELSE Goto(p, "createUpstream_put", NoValue)
    /\ UNCHANGED <<config, lifecycle, health, gateway, op, calls, writes, joined,
                   undisturbed>>

\* createUpstream: the upstream was reported absent; PUT the new document.
CreateUpstreamPut(p) ==
    /\ pc[p] = "createUpstream_put"
    /\ \E o \in WriteOutcomes :
          LET i == InstOf(p)
              id == UpstreamOf(p)
              r == WriteResponse(o, gateway[id].present)
              ok == WriteSucceeded(r)
          IN
          /\ CountFault(o # "applied")
          /\ Record(p, r)
          /\ gateway' = IF WriteApplied(o)
                        THEN GatewayPut(gateway, id, CreateBody(svc[i].name, KeyOf(i)))
                        ELSE gateway
          /\ Disturb(p, WriteApplied(o))
          /\ joined' = JoinedAfter(p, WriteApplied(o), IF ok THEN TRUE ELSE joined[i])
          /\ Return(p, IF ok THEN Nil ELSE ErrCreateUpstream)
    /\ writes' = [writes EXCEPT ![p] = @ + 1]
    /\ UNCHANGED <<config, lifecycle, health, op, calls>>

\* addNodeToUpstream: GET the upstream, look for the node.
AddNodeGet(p) ==
    /\ pc[p] = "addNodeToUpstream"
    /\ \E r \in GetResponses(UpstreamOf(p)) :
          LET i == InstOf(p)
              d == AddNodeDecision(r, KeyOf(i))
          IN
          /\ CountFault(r \in FailedGets)
          /\ Record(p, r)
          /\ IF d = "err"
             THEN Return(p, ErrCreateUpstream) /\ UNCHANGED joined
             ELSE IF d = "nil"
             THEN Return(p, Nil) /\ joined' = [joined EXCEPT ![i] = TRUE]
             ELSE /\ Goto(p, "addNodeToUpstream_put", AddNode(r.value, KeyOf(i)))
                  /\ UNCHANGED joined
    /\ UNCHANGED <<config, lifecycle, health, gateway, op, calls, writes, undisturbed>>

\* addNodeToUpstream: PUT the fetched value, with the node added, back.
AddNodePut(p) ==
    /\ pc[p] = "addNodeToUpstream_put"
    /\ \E o \in WriteOutcomes :
          LET i == InstOf(p)
              id == UpstreamOf(p)
              r == WriteResponse(o, gateway[id].present)
              ok == WriteSucceeded(r)
          IN
          /\ CountFault(o # "applied")
          /\ Record(p, r)
          /\ gateway' = IF WriteApplied(o)
                        THEN GatewayPut(gateway, id, fetched[p])
                        ELSE gateway
          /\ Disturb(p, WriteApplied(o))
          /\ joined' = JoinedAfter(p, WriteApplied(o), IF ok THEN TRUE ELSE joined[i])
          /\ Return(p, IF ok THEN Nil ELSE ErrCreateUpstream)
    /\ writes' = [writes EXCEPT ![p] = @ + 1]
    /\ UNCHANGED <<config, lifecycle, health, op, calls>>

-----------------------------------------------------------------------------
(* Deregister.                                                             *)

DeregisterCall(p) == \E a \in {"", AdminURL} : Call(p, "Deregister", a, 0)

\* Deregister from s.mu.Lock() to the call of deleteNode, which is skipped
\* when the Service has no upstream id.
DeregisterEnter(p) ==
    /\ pc[p] = "Deregister"
    /\ EnterBody(p)
    /\ IF EmptyAdminAPI(adminArg[p]) THEN Return(p, ErrEmptyAdminAPI)
       ELSE IF UpstreamOf(p) = "" THEN Return(p, Nil)
       ELSE Locked(p, "deleteNode")
    /\ UNCHANGED <<config, lifecycle, health, gateway, op, calls, faults, sent, joined>>

\* deleteNode: GET the upstream, look for the node.
DeleteNodeGet(p) ==
    /\ pc[p] = "deleteNode"
    /\ \E r \in GetResponses(UpstreamOf(p)) :
          LET i == InstOf(p)
              d == DeleteNodeDecision(r, KeyOf(i))
          IN
          /\ CountFault(r \in FailedGets)
          /\ Record(p, r)
          /\ IF d = "err" THEN Return(p, ErrDeleteNode)
             ELSE IF d = "nil" THEN Return(p, Nil)
             ELSE Goto(p, "deleteNode_patch", RemoveNode(r.value, KeyOf(i)))
    /\ UNCHANGED <<config, lifecycle, health, gateway, op, calls, writes, joined,
                   undisturbed>>

\* deleteNode: PATCH the fetched value, with the node set to null.
DeleteNodePatch(p) ==
    /\ pc[p] = "deleteNode_patch"
    /\ \E o \in WriteOutcomes :
          LET i == InstOf(p)
              id == UpstreamOf(p)
              found == gateway[id].present
              r == IF found THEN WriteResponse(o, TRUE)
                   ELSE [err |-> FALSE, status |-> 404]
              applied == found /\ WriteApplied(o)
              ok == WriteSucceeded(r)
          IN
          /\ CountFault(o # "applied")
          /\ Record(p, r)
          /\ gateway' = IF applied
                        THEN DeleteNodeRequest(gateway, id, fetched[p])
                        ELSE gateway
          /\ Disturb(p, applied)
          /\ joined' = JoinedAfter(p, applied, IF applied THEN FALSE ELSE joined[i])
          /\ Return(p, IF ok THEN Nil ELSE ErrDeleteNode)
    /\ writes' = [writes EXCEPT ![p] = @ + 1]
    /\ UNCHANGED <<config, lifecycle, health, op, calls>>

-----------------------------------------------------------------------------
(* The health service.                                                     *)

\* The self-hosted server gets the port only if no server this Service
\* started earlier still holds it.
PortFree(ls) == \A n \in DOMAIN ls : ls[n] # "serving"

StartHealthCheckCall(p) == Call(p, "StartHealthCheck", "", 0)

\* Mutant: StartHealthCheck starts the health service whether or not health
\* checking is enabled.
HealthCheckEnabledAlways(s) == TRUE

\* s.healthCheck, as StartHealthCheck and Shutdown test it.
HealthCheckEnabled(s) == s.healthCheck

\* Mutant: the error of the health layer is logged, the call returns nil.
WrapSwallow(category, failed) == Nil

\* fmt.Errorf("%w: %v", category, err) when the step returned err, else nil.
Wrap(category, failed) == IF failed THEN category ELSE Nil

\* The call did not return: it panicked, its deferred Unlock ran and the
\* panic went on to the caller.
Panic == "panic"

\* StartHealthCheck under s.mu, from Lock to the deferred Unlock.
StartHealthCheckBody(p) ==
    /\ pc[p] = "StartHealthCheck" /\ mu[InstOf(p)] = "free"
    /\ LET i == InstOf(p) IN
       IF ~HealthCheckEnabled(svc[i])
       THEN /\ Return(p, Nil)
            /\ UNCHANGED health
       ELSE \E mounted \in BOOLEAN, bound \in BOOLEAN :
               LET st == HealthStart(healthSvc[i], httpServer[i], router[i],
                                     listeners[i], mounted,
                                     bound /\ PortFree(listeners[i]))
               IN
               /\ healthSvc' = [healthSvc EXCEPT ![i] = st.h]
               /\ httpServer' = [httpServer EXCEPT ![i] = st.Handler]
               /\ router' = [router EXCEPT ![i] = st.routes]
               /\ listeners' = [listeners EXCEPT ![i] = st.listeners]
               /\ healthLog' = [healthLog EXCEPT ![i] =
                                   [@ EXCEPT !.starts = @ + 1,
                                             !.mounts = @ + st.mounts,
                                             !.err = st.err]]
               /\ Return(p, IF st.panic THEN Panic
                             ELSE Wrap(ErrStartHealthCheck, st.err))
    /\ UNCHANGED <<config, lifecycle, gateway, op, calls, faults, sent, writes, joined,
                   undisturbed>>

\* A thread calls s.Shutdown(ctx).  Shutdown does not lock s.mu: its body
\* begins at once.
ShutdownCall(p) == \E d \in CallerTimeouts : Call(p, "Shutdown", "", d)

\* Shutdown's body: healthSvc.shutdown(ctx) when health checking is on.
ShutdownBody(p) ==
    /\ pc[p] = "Shutdown"
    /\ LET i == InstOf(p) IN
       IF ~HealthCheckEnabled(svc[i])
       THEN /\ result' = [result EXCEPT ![p] = Nil]
            /\ UNCHANGED health
       ELSE \E served \in BOOLEAN :
               LET sd == HealthShutdown(healthSvc[i], listeners[i], served) IN
               /\ listeners' = [listeners EXCEPT ![i] = sd.listeners]
               /\ healthLog' = [healthLog EXCEPT ![i] =
                                   [@ EXCEPT !.shutdowns = @ + sd.attempts,
                                             !.err = sd.err]]
               /\ result' = [result EXCEPT ![p] = Wrap(ErrShutdownServer, sd.err)]
               /\ UNCHANGED <<healthSvc, httpServer, router>>
    /\ pc' = [pc EXCEPT ![p] = "idle"]
    /\ ctxArg' = [ctxArg EXCEPT ![p] = 0]
    /\ UNCHANGED <<config, lifecycle, mu, gateway, op, adminArg, fetched, calls,
                   faults, sent, writes, joined, sawJoined, undisturbed>>

\* What a Set... call leaves alone: it runs under s.mu from Lock to Unlock
\* and touches the health service only.
SetFrame(p) ==
    /\ Free(p) /\ mu[InstOf(p)] = "free"
    /\ calls' = calls + 1
    /\ op' = [op EXCEPT ![p] = "Set"]
    /\ UNCHANGED <<config, lifecycle, httpServer, router, listeners, healthLog,
                   mu, gateway, pc, adminArg, ctxArg, fetched, result, faults, sent,
                   writes, joined, sawJoined, undisturbed>>

\* s.SetHealthHandler(handler, healthPath)
SetHealthHandler(p) ==
    /\ SetFrame(p)
    /\ \E hh \in HealthHandlers, path \in Routes :
          healthSvc' = [healthSvc EXCEPT ![InstOf(p)] =
                           IF hh = "nil" THEN @ ELSE SetCustomHandler(@, hh, path)]

\* s.SetHTTPServer(server, healthPath)
SetHTTPServer(p) ==
    /\ SetFrame(p)
    /\ \E hs \in HTTPServers, path \in Routes :
          healthSvc' = [healthSvc EXCEPT ![InstOf(p)] =
                           IF hs = "nil" THEN @ ELSE SetCustomServer(@, hs, path)]

-----------------------------------------------------------------------------
(* Construction.                                                           *)

\* New(cfg[i]) is called.  It reads the Config and builds the Service; it
\* makes no request and starts nothing.
Construct(i) ==
    /\ newErr[i] = NotCalled
    /\ svc' = [svc EXCEPT ![i] = New(cfg[i]).svc]
    /\ healthSvc' = [healthSvc EXCEPT ![i] = New(cfg[i]).health]
    /\ newErr' = [newErr EXCEPT ![i] = New(cfg[i]).err]
    /\ UNCHANGED <<cfg, lifecycle, httpServer, router, listeners, healthLog, mu,
                   gateway,
                   pc, op, adminArg, ctxArg, fetched, result, calls, faults, sent,
                   writes, joined, sawJoined, undisturbed>>

-----------------------------------------------------------------------------
(* StartWithGracefulShutdown.                                              *)

\* The thread of the signal goroutine of a Service.
HandlerThread(i) == <<i, "t2">>

\* What keeps its value in a step of StartWithGracefulShutdown or of its
\* goroutine between two calls.
BetweenCalls ==
    UNCHANGED <<config, health, mu, gateway, fetched, result, calls, faults, sent,
                writes, joined, sawJoined, undisturbed, signal>>

\* A thread calls s.StartWithGracefulShutdown(adminAPI, apiKey), which
\* calls s.Register.  A Service is started once.
StartCall(p) ==
    /\ Free(p) /\ handler[InstOf(p)].at = "none"
    /\ \A q \in Procs : InstOf(q) = InstOf(p) => start[q].at = "none"
    /\ \E a \in {"", AdminURL} :
          /\ Invoke(p, "Register", a, 0)
          /\ start' = [start EXCEPT ![p] =
                          [at |-> "Register", adminAPI |-> a, err |-> Nil]]
    /\ calls' = calls + 1
    /\ UNCHANGED handler

\* Mutant: the error of Register is logged and StartHealthCheck is called
\* all the same.
StartAfterRegisterGoesOn(p) ==
    /\ start[p].at = "Register" /\ pc[p] = "idle"
    /\ start' = [start EXCEPT ![p].at = "StartHealthCheck"]
    /\ pc' = [pc EXCEPT ![p] = "StartHealthCheck"]
    /\ op' = [op EXCEPT ![p] = "StartHealthCheck"]
    /\ UNCHANGED <<adminArg, ctxArg>>
    /\ BetweenCalls
    /\ UNCHANGED <<handler, ctx>>

\* Register returned: its error is returned, or StartHealthCheck is called.
StartAfterRegister(p) ==
    /\ start[p].at = "Register" /\ pc[p] = "idle"
    /\ IF result[p] # Nil
       THEN /\ start' = [start EXCEPT ![p] = Started(result[p])]
            /\ UNCHANGED <<pc, op, adminArg, ctxArg>>
       ELSE /\ start' = [start EXCEPT ![p].at = "StartHealthCheck"]
            /\ pc' = [pc EXCEPT ![p] = "StartHealthCheck"]
            /\ op' = [op EXCEPT ![p] = "StartHealthCheck"]
            /\ UNCHANGED <<adminArg, ctxArg>>
    /\ BetweenCalls
    /\ UNCHANGED <<handler, ctx>>

\* What the two texts of StartWithGracefulShutdown in registration.go do
\* when StartHealthCheck returned an error: the first calls Deregister and
\* returns the error, the second logs and returns it.
OnHealthCheckFailure == {"Deregister", "log"}

\* StartHealthCheck returned.  On an error the function deregisters or
\* logs, and returns the error; otherwise it starts the signal goroutine
\* and returns nil.
StartAfterHealthCheck(p) ==
    /\ start[p].at = "StartHealthCheck" /\ pc[p] = "idle"
    /\ IF result[p] # Nil
       THEN \E f \in OnHealthCheckFailure :
               IF f = "Deregister"
               THEN /\ start' = [start EXCEPT ![p].at = "Deregister",
                                               ![p].err = result[p]]
                    /\ pc' = [pc EXCEPT ![p] = "Deregister"]
                    /\ op' = [op EXCEPT ![p] = "Deregister"]
                    /\ adminArg' = [adminArg EXCEPT ![p] = start[p].adminAPI]
                    /\ UNCHANGED <<ctxArg, handler>>
               ELSE /\ start' = [start EXCEPT ![p] = Started(result[p])]
                    /\ UNCHANGED <<pc, op, adminArg, ctxArg, handler>>
       ELSE /\ start' = [start EXCEPT ![p] = Started(Nil)]
            /\ handler' = [handler EXCEPT ![InstOf(p)] =
                              [at |-> "waiting", adminAPI |-> start[p].adminAPI,
                               log |-> <<>>]]
            /\ UNCHANGED <<pc, op, adminArg, ctxArg>>
    /\ BetweenCalls
    /\ UNCHANGED ctx

\* The Deregister after a failed StartHealthCheck returned; its error is
\* dropped and the error of StartHealthCheck is returned.
StartAfterDeregister(p) ==
    /\ start[p].at = "Deregister" /\ pc[p] = "idle"
    /\ start' = [start EXCEPT ![p] = Started(start[p].err)]
    /\ BetweenCalls
    /\ UNCHANGED <<pc, op, adminArg, ctxArg, handler, ctx>>

\* SIGINT or SIGTERM is delivered to the process.
Signal ==
    /\ ~signal
    /\ signal' = TRUE
    /\ UNCHANGED <<config, health, mu, gateway, pc, op, adminArg, ctxArg, fetched,
                   result, calls, faults, sent, writes, joined, sawJoined, undisturbed,
                   start, handler, ctx>>

\* Mutant: the goroutine ends after Deregister, without a Shutdown.
HandlerOrderNoShutdown == <<"cancel", "Deregister">>

\* What the goroutine does after <-quit, in the order of the text.
HandlerOrder == <<"cancel", "Deregister", "Shutdown">>

\* Mutant: a failed Deregister ends the goroutine.
AfterDeregisterStop(err) == IF err = Nil THEN "go on" ELSE "stop"

\* What the goroutine does when Deregister returned err: the error is
\* logged and the goroutine goes on.
AfterDeregister(err) == "go on"

\* The timeout of the context the goroutine passes to Shutdown.
HandlerTimeout == DefaultShutdownTimeout

\* The goroutine does step n of its order: s.cancel(), a call of
\* s.Deregister or a call of s.Shutdown with the default timeout.
HandlerDo(i, n) ==
    LET q == HandlerThread(i)
        what == IF n \in DOMAIN HandlerOrder THEN HandlerOrder[n] ELSE "done"
    IN
    /\ handler' = [handler EXCEPT ![i].at = IF what = "done" THEN "done" ELSE what,
                                  ![i].log = IF what = "done" THEN @ ELSE Append(@, what)]
    /\ IF what = "cancel"
       THEN /\ ctx' = [ctx EXCEPT ![i] = "canceled"]
            /\ UNCHANGED <<pc, op, adminArg, ctxArg>>
       ELSE IF what = "Deregister"
       THEN /\ pc' = [pc EXCEPT ![q] = "Deregister"]
            /\ op' = [op EXCEPT ![q] = "Deregister"]
            /\ adminArg' = [adminArg EXCEPT ![q] = handler[i].adminAPI]
            /\ UNCHANGED <<ctx, ctxArg>>
       ELSE IF what = "Shutdown"
       THEN /\ pc' = [pc EXCEPT ![q] = "Shutdown"]
            /\ op' = [op EXCEPT ![q] = "Shutdown"]
            /\ ctxArg' = [ctxArg EXCEPT ![q] = HandlerTimeout]
            /\ UNCHANGED <<ctx, adminArg>>
       ELSE UNCHANGED <<ctx, pc, op, adminArg, ctxArg>>
    /\ BetweenCalls
    /\ UNCHANGED start

\* The position of step name in the goroutine's order.
StepOf(name) == CHOOSE n \in DOMAIN HandlerOrder : HandlerOrder[n] = name

\* <-quit returns: the goroutine takes its first step.
HandlerWake(i) ==
    /\ handler[i].at = "waiting" /\ signal
    /\ HandlerDo(i, 1)

\* The goroutine goes on after a step that was not a call, or after the
\* call it made has returned.
HandlerStep(i) ==
    /\ handler[i].at \in {"cancel", "Deregister", "Shutdown"}
    /\ pc[HandlerThread(i)] = "idle"
    /\ HandlerDo(i, IF /\ handler[i].at = "Deregister"
                       /\ AfterDeregister(result[HandlerThread(i)]) = "stop"
                    THEN Len(HandlerOrder) + 1
                    ELSE StepOf(handler[i].at) + 1)

-----------------------------------------------------------------------------
(* Specifications.                                                         *)

\* One calling thread per Service: the Services' Register and Deregister
\* calls interleave at the gateway.
Callers == {p \in Procs : ThreadOf(p) = "t1"}

\* Either the Services are replicas sharing one upstream id, or there is a
\* single Service and it has no explicit upstream id (the construction of
\* the other one failed).
InitReconcile ==
    /\ Init
    /\ \A i \in Instances : ~cfg[i].HealthEnabled
    /\ \/ \A i \in Instances : cfg[i].Name # "" /\ cfg[i].UpstreamId = SharedId
       \/ /\ cfg["i1"].Name # "" /\ cfg["i1"].UpstreamId = ""
          /\ cfg["i2"].Name = "" /\ cfg["i2"].UpstreamId = ""

Next ==
    \E p \in Callers :
        \/ RegisterCall(p)
        \/ RegisterEnter(p)
        \/ CreateUpstreamCheck(p)
        \/ CreateUpstreamPut(p)
        \/ AddNodeGet(p)
        \/ AddNodePut(p)
        \/ DeregisterCall(p)
        \/ DeregisterEnter(p)
        \/ DeleteNodeGet(p)
        \/ DeleteNodePatch(p)

Spec == InitReconcile /\ [][Next]_vars

\* One Service called from two threads: Register, Deregister,
\* StartHealthCheck and Shutdown of the same Service interleave.
ServiceThreads == {p \in Procs : InstOf(p) = "i1"}

InitService ==
    /\ Init
    /\ cfg["i1"].Name # "" /\ cfg["i1"].UpstreamId = SharedId
    /\ cfg["i2"].Name = "" /\ cfg["i2"].UpstreamId = "" /\ ~cfg["i2"].HealthEnabled

NextService ==
    \E p \in ServiceThreads :
        \/ RegisterCall(p)
        \/ RegisterEnter(p)
        \/ CreateUpstreamCheck(p)
        \/ CreateUpstreamPut(p)
        \/ AddNodeGet(p)
        \/ AddNodePut(p)
        \/ DeregisterCall(p)
        \/ DeregisterEnter(p)
        \/ DeleteNodeGet(p)
        \/ DeleteNodePatch(p)
        \/ StartHealthCheckCall(p)
        \/ StartHealthCheckBody(p)
        \/ ShutdownCall(p)
        \/ ShutdownBody(p)

SpecService == InitService /\ [][NextService]_vars

\* One Service from its construction on: New with a Config of any kind,
\* then the calls that concern the health service, from one thread.
HealthThread == <<"i1", "t1">>

InitHealth ==
    /\ \E c1 \in AnyConfigs("i1"), c2 \in Configs("i2") :
          /\ c2.Name = "" /\ c2.UpstreamId = "" /\ ~c2.HealthEnabled
          /\ InitWith(("i1" :> c1) @@ ("i2" :> c2), {"i2"})
    /\ httpServer \in [Instances -> {NilHandler, AppHandler}]
    /\ httpServer["i2"] = AppHandler
    /\ gateway = [id \in UpstreamIds |-> AbsentDoc]

NextHealth ==
    \/ Construct("i1")
    \/ StartHealthCheckCall(HealthThread)
    \/ StartHealthCheckBody(HealthThread)
    \/ ShutdownCall(HealthThread)
    \/ ShutdownBody(HealthThread)
    \/ SetHealthHandler(HealthThread)
    \/ SetHTTPServer(HealthThread)

SpecHealth == InitHealth /\ [][NextHealth]_vars

\* One Service whose thread t1 calls StartWithGracefulShutdown, Register,
\* Deregister, StartHealthCheck and Shutdown, and whose thread t2 is the
\* signal goroutine.  The health route goes to an adapter of the caller's.
StartThread == <<"i1", "t1">>

InitStart ==
    /\ \E c1 \in AnyConfigs("i1"), c2 \in Configs("i2") :
          /\ c1.Name # "" /\ c1.Host # "" /\ c1.Port > 0 /\ c1.UpstreamId = SharedId
          /\ c1.Route = "" /\ c1.HTTPServer = "nil"
          /\ c1.HealthHandler \in {"nil", "user"}
          /\ c2.Name = "" /\ c2.UpstreamId = "" /\ ~c2.HealthEnabled
          /\ InitWith(("i1" :> c1) @@ ("i2" :> c2), Instances)
    /\ httpServer = [i \in Instances |-> AppHandler]
    /\ gateway \in [UpstreamIds -> {AbsentDoc, LegacyDoc}]
    /\ \A id \in UpstreamIds : id # SharedId => gateway[id] = AbsentDoc

NextStart ==
    \/ StartCall(StartThread)
    \/ StartAfterRegister(StartThread)
    \/ StartAfterHealthCheck(StartThread)
    \/ StartAfterDeregister(StartThread)
    \/ Signal
    \/ HandlerWake("i1")
    \/ HandlerStep("i1")
    \/ RegisterCall(StartThread)
    \/ DeregisterCall(StartThread)
    \/ StartHealthCheckCall(StartThread)
    \/ ShutdownCall(StartThread)
    \/ \E p \in ServiceThreads :
          \/ RegisterEnter(p)
          \/ CreateUpstreamCheck(p)
          \/ CreateUpstreamPut(p)
          \/ AddNodeGet(p)
          \/ AddNodePut(p)
          \/ DeregisterEnter(p)
          \/ DeleteNodeGet(p)
          \/ DeleteNodePatch(p)
          \/ StartHealthCheckBody(p)
          \/ ShutdownBody(p)

SpecStart == InitStart /\ [][NextStart]_vars

\* The steps of the call thread p is in: the next request of its Admin API
\* client, the taking of s.mu, the body of StartHealthCheck or Shutdown.
BodyStep(p) ==
    \/ RegisterEnter(p)
    \/ CreateUpstreamCheck(p)
    \/ CreateUpstreamPut(p)
    \/ AddNodeGet(p)
    \/ AddNodePut(p)
    \/ DeregisterEnter(p)
    \/ DeleteNodeGet(p)
    \/ DeleteNodePatch(p)
    \/ StartHealthCheckBody(p)
    \/ ShutdownBody(p)

\* A Service with health checking enabled whose route goes to an adapter
\* of the caller's, before a gateway that holds no upstream.
InitSignal ==
    /\ InitStart
    /\ cfg["i1"].HealthEnabled /\ cfg["i1"].HealthHandler = "user"
    /\ gateway[SharedId] = AbsentDoc

\* That Service under fair scheduling: a goroutine that can run does run,
\* every Admin API request and server.Shutdown returns, and a goroutine
\* waiting in s.mu.Lock() gets the mutex once it stays free.
SpecStartFair ==
    /\ InitSignal /\ [][NextStart]_vars
    /\ WF_vars(HandlerWake("i1"))
    /\ WF_vars(HandlerStep("i1"))
    /\ \A p \in ServiceThreads : WF_vars(BodyStep(p))

\* Two Services from their construction on, built from Configs that may
\* agree in name, host and port; the first one registers and deregisters.
IdConfigs ==
    {c \in UNION {AnyConfigs(i) : i \in Instances} :
        /\ ~c.HealthEnabled /\ c.Route = ""
        /\ c.HealthHandler = "nil" /\ c.HTTPServer = "nil"}

NewThread == <<"i1", "t1">>

InitNew ==
    /\ \E c1 \in IdConfigs, c2 \in IdConfigs :
          InitWith(("i1" :> c1) @@ ("i2" :> c2), {})
    /\ httpServer = [i \in Instances |-> AppHandler]
    /\ gateway = [id \in UpstreamIds |-> AbsentDoc]

NextNew ==
    \/ \E i \in Instances : Construct(i)
    \/ RegisterCall(NewThread)
    \/ RegisterEnter(NewThread)
    \/ CreateUpstreamCheck(NewThread)
    \/ CreateUpstreamPut(NewThread)
    \/ AddNodeGet(NewThread)
    \/ AddNodePut(NewThread)
    \/ DeregisterCall(NewThread)
    \/ DeregisterEnter(NewThread)
    \/ DeleteNodeGet(NewThread)
    \/ DeleteNodePatch(NewThread)

SpecNew == InitNew /\ [][NextNew]_vars

-----------------------------------------------------------------------------
(* Vocabulary of the properties.                                           *)

\* The call of p returns in this step.
Returns(p) == pc[p] # "idle" /\ pc'[p] = "idle"

\* p returned from a call of method m that went through to its end with
\* result err.
Returned(p, m, err) == pc[p] = "idle" /\ op[p] = m /\ result[p] = err

NodesOf(g, p) == g[UpstreamOf(p)].nodes

\* Apart from key k the two node sets are the same: same keys, same weights.
SiblingsKept(old, new, k) ==
    /\ DOMAIN old \ {k} = DOMAIN new \ {k}
    /\ \A n \in DOMAIN old \ {k} : old[n] = new[n]

\* The step is p's last request, a PUT or PATCH.
WriteBy(p) ==
    /\ pc[p] \in {"createUpstream_put", "addNodeToUpstream_put", "deleteNode_patch"}
    /\ Returns(p)

\* No request of p failed in this step.
Answered == faults' = faults

-----------------------------------------------------------------------------
(* C1 *)

\* C1 as claimed: under any interleaving, a write against an upstream that
\* exists at the moment of the write changes at most the writer's own
\* nodeKey.
C1_WriteTouchesOwnKeyOnly ==
    [][\A p \in Procs :
          WriteBy(p) /\ gateway[UpstreamOf(p)].present
          => SiblingsKept(NodesOf(gateway, p), NodesOf(gateway', p), KeyOf(InstOf(p)))]_vars

\* C1 as amended: a write against an upstream that exists at the moment of
\* the write, issued by a call during which no other process has written
\* that upstream, changes at most the writer's own nodeKey: no sibling
\* nodeKey is added, removed or re-weighted by it.
C1_UndisturbedWriteTouchesOwnKeyOnly ==
    [][\A p \in Procs :
          WriteBy(p) /\ gateway[UpstreamOf(p)].present /\ undisturbed[p]
          => SiblingsKept(NodesOf(gateway, p), NodesOf(gateway', p), KeyOf(InstOf(p)))]_vars

\* An undisturbed Register has joined an upstream that held another
\* party's node with weight 2, which is still there with that weight.
C1_Witness ==
    \E p \in Procs :
        /\ Returned(p, "Register", Nil) /\ writes[p] = 1 /\ undisturbed[p]
        /\ DOMAIN NodesOf(gateway, p) = {LegacyKey, KeyOf(InstOf(p))}
        /\ NodesOf(gateway, p)[LegacyKey] = 2

-----------------------------------------------------------------------------
(* C2 *)

\* C2: a Register (createUpstream) that follows a successful Register of
\* the same Service, no other process having written the upstream in
\* between, issues no PUT, leaves the gateway as it was with the nodeKey in
\* the node set, and returns success unless one of its GETs fails.
C2_SecondCreateIsNoOp ==
    [][\A p \in Procs :
          /\ op[p] = "Register" /\ Returns(p)
          /\ InstOf(p) \in sawJoined[p] /\ undisturbed[p]
          => /\ writes'[p] = 0
             /\ gateway' = gateway
             /\ KeyOf(InstOf(p)) \in DOMAIN NodesOf(gateway', p)
             /\ (Answered => result'[p] = Nil)]_vars

\* A second Register has returned success without a PUT, on an upstream
\* that the first one created (it holds the own node alone).
C2_Witness ==
    \E p \in Procs :
        /\ Returned(p, "Register", Nil) /\ writes[p] = 0 /\ undisturbed[p]
        /\ joined[InstOf(p)]
        /\ DOMAIN NodesOf(gateway, p) = {KeyOf(InstOf(p))}

-----------------------------------------------------------------------------
(* C3 *)

\* C3: when a Deregister returns and no other process has written the
\* upstream during it, every other nodeKey is present as before with the
\* weight it had, and if it returned success the own nodeKey is gone.
C3_DeregisterKeepsSiblings ==
    [][\A p \in Procs :
          op[p] = "Deregister" /\ Returns(p) /\ undisturbed[p]
          => /\ SiblingsKept(NodesOf(gateway, p), NodesOf(gateway', p), KeyOf(InstOf(p)))
             /\ (result'[p] = Nil
                    => KeyOf(InstOf(p)) \notin DOMAIN NodesOf(gateway', p))]_vars

\* A Deregister has removed its node from an upstream of three nodes; the
\* other two are there, the foreign one with its weight 2.
C3_Witness ==
    \E p \in Procs : \E q \in Procs :
        /\ InstOf(q) # InstOf(p)
        /\ Returned(p, "Deregister", Nil) /\ writes[p] = 1 /\ undisturbed[p]
        /\ DOMAIN NodesOf(gateway, p) = {LegacyKey, KeyOf(InstOf(q))}
        /\ NodesOf(gateway, p)[LegacyKey] = 2
        /\ NodesOf(gateway, p)[KeyOf(InstOf(q))] = 1

-----------------------------------------------------------------------------
(* C4 *)

\* C4: an upstream that is present in the gateway is present after every
\* step of every Register and Deregister.
C4_UpstreamStays ==
    [][\A id \in UpstreamIds : gateway[id].present => gateway'[id].present]_vars

\* A Deregister has removed the last node: the upstream is present and its
\* node set is empty.
C4_Witness ==
    \E p \in Procs :
        /\ Returned(p, "Deregister", Nil) /\ writes[p] = 1
        /\ gateway[UpstreamOf(p)].present
        /\ DOMAIN NodesOf(gateway, p) = {}

-----------------------------------------------------------------------------
(* C5 *)

\* C5: when deleteNode's GET is answered and the upstream does not exist or
\* its node set lacks the nodeKey, deleteNode returns success at once: no
\* write has been issued and the gateway is unchanged.
C5_RemoveAbsentIsNoOp ==
    [][\A p \in Procs :
          /\ pc[p] = "deleteNode" /\ pc'[p] # "deleteNode" /\ Answered
          /\ KeyOf(InstOf(p)) \notin DOMAIN NodesOf(gateway, p)
          => /\ Returns(p) /\ result'[p] = Nil
             /\ writes'[p] = 0
             /\ gateway' = gateway]_vars

\* A Deregister of a node that was never added has returned success
\* without a write, the upstream holding the foreign node only.
C5_Witness ==
    \E p \in Procs :
        /\ Returned(p, "Deregister", Nil) /\ writes[p] = 0
        /\ ~joined[InstOf(p)]
        /\ gateway[UpstreamOf(p)] = LegacyDoc

-----------------------------------------------------------------------------
(* C6 *)

\* C6: when a Deregister returns success, the Service's Register having
\* succeeded before it and no other process having written the upstream
\* since, the nodeKey is not in the node set and the upstream is present.
C6_DeregisterAfterRegister ==
    [][\A p \in Procs :
          /\ op[p] = "Deregister" /\ Returns(p) /\ result'[p] = Nil
          /\ InstOf(p) \in sawJoined[p] /\ undisturbed[p]
          => /\ gateway'[UpstreamOf(p)].present
             /\ KeyOf(InstOf(p)) \notin DOMAIN NodesOf(gateway', p)]_vars

\* Register then Deregister of the one Service with a derived upstream id:
\* the upstream it created is present, without its node.
C6_Witness ==
    \E p \in Procs :
        /\ cfg[InstOf(p)].UpstreamId = ""
        /\ Returned(p, "Deregister", Nil) /\ writes[p] = 1 /\ undisturbed[p]
        /\ gateway[UpstreamOf(p)].present
        /\ KeyOf(InstOf(p)) \notin DOMAIN NodesOf(gateway, p)

-----------------------------------------------------------------------------
(* C7 *)

\* C7: when a Register returns success, having begun after the Register of
\* a sibling with the same upstream id returned success, and no other
\* process has written the upstream since that, the node set holds both
\* nodeKeys, each with weight 1.
C7_SequentialRegistersBothPresent ==
    [][\A p \in Procs : \A j \in Instances :
          /\ op[p] = "Register" /\ Returns(p) /\ result'[p] = Nil
          /\ j # InstOf(p) /\ svc[j].upstreamID = UpstreamOf(p)
          /\ j \in sawJoined[p] /\ undisturbed[p]
          => /\ {KeyOf(j), KeyOf(InstOf(p))} \subseteq DOMAIN NodesOf(gateway', p)
             /\ NodesOf(gateway', p)[KeyOf(j)] = 1
             /\ NodesOf(gateway', p)[KeyOf(InstOf(p))] = 1]_vars

\* Two Services on ports 9000 and 9001 have registered one after the other
\* under one upstream id, which did not exist before.
C7_Witness ==
    /\ \A p \in Callers :
          Returned(p, "Register", Nil) /\ writes[p] = 1 /\ undisturbed[p]
    /\ gateway[SharedId].nodes = ("10.0.0.5:9000" :> 1) @@ ("10.0.0.5:9001" :> 1)

-----------------------------------------------------------------------------
(* C8 *)

\* C8: when the Register of Service {name "svc", host "10.0.0.5", port
\* 9000}, constructed with no upstream id, succeeds by creating the
\* upstream, the upstream is stored under "svc_10.0.0.5_9000" with type
\* roundrobin and the node set {"10.0.0.5:9000": 1}.
C8_CreatesDerivedUpstream ==
    [][\A p \in Procs :
          /\ pc[p] = "createUpstream_put" /\ Returns(p) /\ result'[p] = Nil
          /\ cfg[InstOf(p)] = [Name |-> "svc", Host |-> "10.0.0.5", Port |-> 9000,
                               UpstreamId |-> "", HealthEnabled |-> FALSE,
                               Route |-> "", HealthHandler |-> "nil",
                               HTTPServer |-> "nil"]
          => /\ UpstreamOf(p) = "svc_10.0.0.5_9000"
             /\ gateway'["svc_10.0.0.5_9000"] =
                   [present |-> TRUE, name |-> "svc", type |-> "roundrobin",
                    nodes |-> ("10.0.0.5:9000" :> 1)]]_vars

\* That Register has returned success against a gateway that held nothing.
C8_Witness ==
    \E p \in Procs :
        /\ cfg[InstOf(p)].UpstreamId = ""
        /\ Returned(p, "Register", Nil) /\ writes[p] = 1
        /\ calls = 1
        /\ gateway[UpstreamOf(p)].nodes = ("10.0.0.5:9000" :> 1)

-----------------------------------------------------------------------------
(* C9 *)

\* The thread is inside the body of Register, Deregister or Shutdown (for
\* the first two: it holds s.mu; at "Register" / "Deregister" it has called
\* and waits for s.mu).
InBody(p) ==
    pc[p] \in {"checkUpstreamExists", "createUpstream_put", "addNodeToUpstream",
               "addNodeToUpstream_put", "deleteNode", "deleteNode_patch", "Shutdown"}

\* C9 as claimed: on one Service no two threads are inside the bodies of
\* Register, Deregister and Shutdown at the same time.
C9_MutualExclusion ==
    \A p \in Procs : \A q \in Procs :
        p # q /\ InstOf(p) = InstOf(q) => ~(InBody(p) /\ InBody(q))

-----------------------------------------------------------------------------
(* C10 *)

\* The fields of the Service, its lock included.
ServiceState(i) == <<svc[i], healthSvc[i], mu[i]>>
ServiceAfterNew(i) == <<New(cfg[i]).svc, New(cfg[i]).health, "free">>

AtRest(i) == \A t \in Threads : pc[<<i, t>>] \in {"idle", "Register", "Deregister"}

-----------------------------------------------------------------------------
(* C11 *)

\* C11 as claimed: when Register succeeded inside StartWithGracefulShutdown
\* and StartHealthCheck then returned an error, the next thing the function
\* does is return that error: it calls no Deregister, so no deleteNode
\* request is issued and the node stays in the gateway's node set.
C11_RegistrationLeftStanding ==
    [][\A p \in Procs :
          /\ start[p].at = "StartHealthCheck" /\ pc[p] = "idle"
          /\ result[p] # Nil /\ start'[p] # start[p]
          => /\ start'[p] = Started(ErrStartHealthCheck)
             /\ pc'[p] = "idle"
             /\ gateway' = gateway]_vars

-----------------------------------------------------------------------------
(* C12 *)

\* C12: what the signal goroutine has done so far is a beginning of
\* cancel, Deregister, Shutdown, in this order; there is a goroutine only
\* after StartWithGracefulShutdown succeeded; s.ctx is canceled only after a
\* signal was delivered; the goroutine calls Shutdown with the default
\* timeout; and when its Deregister has returned, with an error or without,
\* its next step is the call of Shutdown.
C12_SignalHandlerOrder ==
    /\ [](\A i \in Instances :
            LET q == HandlerThread(i) IN
            /\ handler[i].log =
                  SubSeq(<<"cancel", "Deregister", "Shutdown">>, 1, Len(handler[i].log))
            /\ handler[i].at # "none"
                  => \E p \in Procs : InstOf(p) = i /\ start[p] = Started(Nil)
            /\ ctx[i] = "canceled" => signal /\ handler[i].log # <<>>
            /\ handler[i].at = "Shutdown" /\ pc[q] = "Shutdown"
                  => ctxArg[q] = DefaultShutdownTimeout)
    /\ [][\A i \in Instances :
            handler[i].at = "Deregister" /\ handler'[i] # handler[i]
            => /\ handler'[i].at = "Shutdown"
               /\ pc'[HandlerThread(i)] = "Shutdown"]_vars

\* The goroutine's Deregister failed and the goroutine is in Shutdown.
C12_Witness ==
    LET q == HandlerThread("i1") IN
    /\ handler["i1"].log = <<"cancel", "Deregister", "Shutdown">>
    /\ pc[q] = "Shutdown" /\ result[q] = ErrDeleteNode
    /\ ctx["i1"] = "canceled"

-----------------------------------------------------------------------------
(* C13 *)

\* C13: while health checking is disabled, no self-hosted server has been
\* created, no RegisterHealthCheck and no server shutdown has been
\* attempted, the external server's handler is not wrapped, and every
\* StartHealthCheck and Shutdown that returned, returned nil.
C13_DisabledHealthDoesNothing ==
    \A p \in Procs :
        LET i == InstOf(p) IN
        newErr[i] = Nil /\ ~svc[i].healthCheck
        => /\ listeners[i] = <<>>
           /\ healthLog[i] = NoLog
           /\ httpServer[i].wraps = <<>>
           /\ healthSvc[i].server = 0
           /\ (pc[p] = "idle" /\ op[p] \in {"StartHealthCheck", "Shutdown"}
                  => result[p] = Nil)

\* With health checking disabled, StartHealthCheck and Shutdown have both
\* been called and the last one has returned, an adapter being configured.
C13_Witness ==
    /\ newErr["i1"] = Nil /\ ~svc["i1"].healthCheck
    /\ cfg["i1"].HTTPServer # "nil"
    /\ calls = MaxCalls
    /\ Returned(HealthThread, "Shutdown", Nil)

-----------------------------------------------------------------------------
(* C14 *)

Loopback == {"127.0.0.1", "localhost", "::1"}

\* C14 as claimed: New with a non-empty name, a positive port and an empty
\* host returns a Service whose host is the loopback address, and no error.
C14_EmptyHostDefaulted ==
    \A i \in Instances :
        /\ newErr[i] # NotCalled
        /\ cfg[i].Name # "" /\ cfg[i].Port > 0 /\ cfg[i].Host = ""
        => newErr[i] = Nil /\ svc[i].host \in Loopback

\* C14 as amended: New with a non-empty name, a positive port and an empty
\* host returns the empty-host error and no Service.
C14_EmptyHostRejected ==
    \A i \in Instances :
        /\ newErr[i] # NotCalled
        /\ cfg[i].Name # "" /\ cfg[i].Port > 0 /\ cfg[i].Host = ""
        => newErr[i] = ErrEmptyHost /\ svc[i] = NoService

C14_Witness ==
    /\ newErr["i1"] = ErrEmptyHost
    /\ cfg["i1"].Name # "" /\ cfg["i1"].Port > 0 /\ cfg["i1"].Host = ""

-----------------------------------------------------------------------------
(* C15 *)

\* New made no request and started nothing in this step.
NoIO ==
    /\ gateway' = gateway /\ faults' = faults
    /\ listeners' = listeners /\ httpServer' = httpServer
    /\ healthLog' = healthLog

\* C15 as claimed: New with an empty name returns the configuration error
\* and no Service; with a non-empty name and a port <= 0 it returns the
\* invalid-port error and no Service; and no call of New makes a request or
\* starts a listener.
C15_NewFailsFast ==
    [][\A i \in Instances :
          newErr[i] = NotCalled /\ newErr'[i] # NotCalled
          => /\ cfg[i].Name = ""
                => newErr'[i] = ErrInvalidConfig /\ svc'[i] = NoService
             /\ cfg[i].Name # "" /\ cfg[i].Port <= 0
                => newErr'[i] = ErrInvalidPort /\ svc'[i] = NoService
             /\ NoIO]_vars

\* C15 as amended: the checks are made in the order name, host, port.  New
\* with an empty name returns the configuration error; with a non-empty
\* name and an empty host the empty-host error, whatever the port; with a
\* non-empty name and host and a port <= 0 the invalid-port error; each
\* time no Service.  No call of New makes a request or starts a listener.
C15_NewChecksNameHostPort ==
    [][\A i \in Instances :
          newErr[i] = NotCalled /\ newErr'[i] # NotCalled
          => /\ cfg[i].Name = ""
                => newErr'[i] = ErrInvalidConfig /\ svc'[i] = NoService
             /\ cfg[i].Name # "" /\ cfg[i].Host = ""
                => newErr'[i] = ErrEmptyHost /\ svc'[i] = NoService
             /\ cfg[i].Name # "" /\ cfg[i].Host # "" /\ cfg[i].Port <= 0
                => newErr'[i] = ErrInvalidPort /\ svc'[i] = NoService
             /\ newErr'[i] = Nil
                => cfg[i].Name # "" /\ cfg[i].Host # "" /\ cfg[i].Port > 0
             /\ NoIO]_vars

\* New was called with an empty name and a port <= 0.
C15_Witness ==
    /\ newErr["i1"] = ErrInvalidConfig
    /\ cfg["i1"].Port <= 0 /\ cfg["i1"].Host # ""

-----------------------------------------------------------------------------
(* C16 *)

\* C16: a Register or Deregister that was called with an empty adminAPI
\* returns ErrEmptyAdminAPI in its first step: it has made no request and
\* the gateway's documents are as they were.
C16_EmptyAdminAPIRejected ==
    [][\A p \in Procs :
          /\ pc[p] \in {"Register", "Deregister"} /\ adminArg[p] = ""
          /\ pc'[p] # pc[p]
          => /\ pc'[p] = "idle"
             /\ result'[p] = ErrEmptyAdminAPI
             /\ writes'[p] = 0
             /\ gateway' = gateway /\ faults' = faults]_vars

\* A registered Service called Deregister with an empty adminAPI; its node
\* is still there.
C16_Witness ==
    \E p \in Procs :
        /\ Returned(p, "Deregister", ErrEmptyAdminAPI)
        /\ joined[InstOf(p)]
        /\ KeyOf(InstOf(p)) \in DOMAIN NodesOf(gateway, p)

-----------------------------------------------------------------------------
(* C17 *)

RegisterSteps == {"checkUpstreamExists", "createUpstream_put",
                  "addNodeToUpstream", "addNodeToUpstream_put"}
DeregisterSteps == {"deleteNode", "deleteNode_patch"}

\* The health service was asked to start or to shut down in this step and
\* returned an error.
HealthFailed(i) == healthLog'[i] # healthLog[i] /\ healthLog'[i].err

-----------------------------------------------------------------------------
(* C18 *)

\* C18: the first call on a Service with health checking enabled being
\* StartHealthCheck: when a HealthHandler is configured it is the one
\* RegisterHealthCheck is called on (for a handler of the caller's own the
\* external server is left alone even when an HTTPServer is configured too)
\* and no listener is created; when only an HTTPServer is configured the
\* route is mounted on that server (or the mount fails on its nil handler)
\* and no listener is created; when neither is configured a self-hosted
\* listener is created and nothing is mounted.
C18_VariantPriority ==
    [][\A p \in Procs :
          LET i == InstOf(p)
              c == cfg[i]
              mounted == healthLog'[i].mounts - healthLog[i].mounts
              created == Len(listeners'[i]) - Len(listeners[i])
          IN
          /\ pc[p] = "StartHealthCheck" /\ pc'[p] = "idle"
          /\ calls = 1 /\ svc[i].healthCheck
          => IF c.HealthHandler # "nil"
             THEN /\ mounted = 1 /\ created = 0
                  /\ healthSvc[i].customHandler = c.HealthHandler
                  /\ c.HealthHandler = "user" => httpServer'[i] = httpServer[i]
             ELSE IF c.HTTPServer # "nil"
             THEN /\ mounted = 1 /\ created = 0
                  /\ IF IsNilHandler(httpServer[i])
                     THEN /\ result'[p] = ErrStartHealthCheck
                          /\ httpServer'[i] = httpServer[i]
                     ELSE /\ result'[p] = Nil
                          /\ httpServer'[i].wraps = <<healthSvc[i].healthPath>>
             ELSE /\ mounted = 0 /\ created = 1
                  /\ httpServer'[i] = httpServer[i]
                  /\ result'[p] = Nil]_vars

\* Both a HealthHandler of the caller's own and an HTTPServer were
\* configured; StartHealthCheck mounted on the former and left the server
\* alone.
C18_Witness ==
    /\ cfg["i1"].HealthHandler = "user" /\ cfg["i1"].HTTPServer = "srv"
    /\ calls = 1 /\ Returned(HealthThread, "StartHealthCheck", Nil)
    /\ healthLog["i1"].mounts = 1
    /\ httpServer["i1"] = AppHandler /\ listeners["i1"] = <<>>

-----------------------------------------------------------------------------
(* C19 *)

\* The health paths mounted on the external server so far.
MountedPaths(i) == {httpServer[i].wraps[n] : n \in DOMAIN httpServer[i].wraps}

\* C19: a mount through the StandardHealthHandler fails and leaves the
\* server's handler as it was when the server or its handler is nil, and
\* succeeds otherwise; and after any number of mounts every request to a
\* mounted health path gets the health response and every request to
\* another path goes to the handler the server had before the first mount.
C19_ExternalServerAdapter ==
    /\ [](\A i \in Instances : \A path \in RequestPaths :
            ServeHTTP(httpServer[i], path) =
               IF path \in MountedPaths(i) THEN "health" ELSE httpServer[i].base)
    /\ [][\A p \in Procs :
            LET i == InstOf(p) IN
            /\ pc[p] = "StartHealthCheck" /\ pc'[p] = "idle"
            /\ svc[i].healthCheck
            /\ healthSvc[i].customHandler \in {"standard", "standardNil"}
            => IF healthSvc[i].customHandler = "standardNil"
                  \/ IsNilHandler(httpServer[i])
               THEN /\ result'[p] = ErrStartHealthCheck
                    /\ httpServer'[i] = httpServer[i]
               ELSE /\ result'[p] = Nil
                    /\ httpServer'[i].base = httpServer[i].base
                    /\ ServeHTTP(httpServer'[i], healthSvc[i].healthPath) = "health"
                    /\ \A path \in RequestPaths \ {healthSvc[i].healthPath} :
                          ServeHTTP(httpServer'[i], path) =
                             ServeHTTP(httpServer[i], path)]_vars

\* The route has been mounted on the external server twice.
C19_Witness ==
    /\ Len(httpServer["i1"].wraps) = 2
    /\ httpServer["i1"].base = "app"
    /\ ServeHTTP(httpServer["i1"], "/api") = "app"
    /\ Returned(HealthThread, "StartHealthCheck", Nil)

-----------------------------------------------------------------------------
(* C20 *)

\* C20 as claimed: on a Service that serves its health check itself, the
\* health service's start has been called at most once and at most one
\* listener has been created.
C20_StartAtMostOnce ==
    \A i \in Instances :
        /\ newErr[i] = Nil /\ svc[i].healthCheck
        /\ cfg[i].HealthHandler = "nil" /\ cfg[i].HTTPServer = "nil"
        /\ healthSvc[i].customHandler = "nil"
        => healthLog[i].starts <= 1 /\ Len(listeners[i]) <= 1

-----------------------------------------------------------------------------
(* C21 *)

\* C21: a Shutdown of a Service whose health route goes to an external
\* server or to an adapter returns nil and leaves the external server's
\* handler and every listener as they were; otherwise only the self-hosted
\* server the health service points to is shut down, under the ctx of the
\* caller, and the call returns nil when that server closed and the
\* shutdown error when the deadline expired or the close failed.
C21_ShutdownLeavesExternalServer ==
    [][\A p \in Procs :
          LET i == InstOf(p)
              h == healthSvc[i]
              ls == listeners[i]
          IN
          /\ pc[p] = "Shutdown" /\ pc'[p] = "idle"
          /\ svc[i].healthCheck
          => /\ httpServer' = httpServer
             /\ healthSvc' = healthSvc
             /\ \A j \in Instances \ {i} : listeners'[j] = listeners[j]
             /\ IF h.customHandler # "nil" \/ h.server = 0
                THEN result'[p] = Nil /\ listeners'[i] = ls
                ELSE /\ DOMAIN listeners'[i] = DOMAIN ls
                     /\ \A n \in DOMAIN ls \ {h.server} : listeners'[i][n] = ls[n]
                     /\ IF ls[h.server] \in {"serving", "draining"}
                        THEN \/ /\ result'[p] = Nil
                                /\ listeners'[i][h.server] = "closed"
                             \/ /\ result'[p] = ErrShutdownServer
                                /\ listeners'[i][h.server] = "draining"
                        ELSE /\ result'[p] = Nil
                             /\ listeners'[i][h.server] = ls[h.server]]_vars

\* Shutdown returned nil on a Service whose route is mounted on the
\* external server: the server still answers the health path and no
\* server.Shutdown call was made.
C21_Witness ==
    /\ Returned(HealthThread, "Shutdown", Nil)
    /\ svc["i1"].healthCheck
    /\ healthSvc["i1"].customHandler = "standard"
    /\ httpServer["i1"].wraps # <<>>
    /\ ServeHTTP(httpServer["i1"], healthSvc["i1"].healthPath) = "health"
    /\ healthLog["i1"].shutdowns = 0

-----------------------------------------------------------------------------
(* C22 *)

\* What a GET of a mounted health path of Service i is answered with when
\* its X-Service-Name header is header: by each self-hosted server that
\* is serving, by the external server when a dispatcher is wrapped around
\* its handler, and by each route on the router of the caller's adapter.
HealthAnswers(i, header) ==
    {SelfHostedRoute(svc[i].name, header) :
        n \in {k \in DOMAIN listeners[i] : listeners[i][k] = "serving"}}
    \cup {HealthCheckHandler(svc[i].name, header) :
             path \in {q \in RequestPaths : ServeHTTP(httpServer[i], q) = "health"}}
    \cup {Answer(r, svc[i].name, header) : r \in router[i]}

\* C22 as claimed: whichever variant mounted the route, a request to the
\* mounted health path is answered with status 200 and a body whose status
\* is "ok" and whose service is the configured name of the Service.
C22_HealthBodyNamesService ==
    \A i \in Instances : \A header \in RequestHeaders :
        \A answer \in HealthAnswers(i, header) :
            /\ answer.code = 200
            /\ answer.body.status = "ok"
            /\ answer.body.service = cfg[i].Name

-----------------------------------------------------------------------------
(* C23 *)

\* The nodeKeys of the document a Register is about to PUT: its own alone
\* when it found no upstream, those of the value it fetched otherwise.
HeldKeys(p) ==
    IF pc[p] = "createUpstream_put" THEN {KeyOf(InstOf(p))}
    ELSE {k \in DOMAIN fetched[p].nodes : fetched[p].nodes[k] # JNull}

\* C23: a Register that fetched before a sibling wrote and PUTs after it
\* returns success and leaves the upstream without the sibling's nodeKey:
\* every nodeKey the upstream holds that is not in the document the
\* Register fetched is gone after its PUT.  So of two Registers that both
\* fetch before either writes and both succeed, the first writer's nodeKey
\* is missing in the end.
C23_StaleRegisterDropsSibling ==
    [][\A p \in Procs :
          /\ pc[p] \in {"createUpstream_put", "addNodeToUpstream_put"}
          /\ Returns(p) /\ result'[p] = Nil
          => /\ DOMAIN NodesOf(gateway', p) = HeldKeys(p)
             /\ \A k \in DOMAIN NodesOf(gateway, p) \ HeldKeys(p) :
                   k \notin DOMAIN NodesOf(gateway', p)]_vars

\* The only two calls made are Registers of two Services that share the
\* upstream; both wrote once and returned nil, and the upstream holds the
\* nodeKey of one of them only.
C23_Witness ==
    \E p \in Procs, q \in Procs :
        /\ InstOf(p) # InstOf(q) /\ UpstreamOf(p) = UpstreamOf(q)
        /\ calls = 2 /\ faults = 0
        /\ Returned(p, "Register", Nil) /\ writes[p] = 1
        /\ Returned(q, "Register", Nil) /\ writes[q] = 1
        /\ KeyOf(InstOf(p)) \in DOMAIN NodesOf(gateway, p)
        /\ KeyOf(InstOf(q)) \notin DOMAIN NodesOf(gateway, p)

-----------------------------------------------------------------------------
(* C24 *)

\* C24 as claimed: a call that failed on a response with a non-success
\* status returned only after the client had sent the request as many
\* times as its retry policy allows.
C24_NonSuccessStatusRetried ==
    \A p \in Procs :
        /\ pc[p] = "idle" /\ result[p] \in {ErrCreateUpstream, ErrDeleteNode}
        /\ sent[p].status >= 400
        => sent[p].attempts >= DefaultRetryCount

-----------------------------------------------------------------------------
(* C25 *)

\* C25: checkUpstreamExists answers "absent" on 404 and "exists" on 200,
\* so that createUpstream goes on to the PUT of a new document or to
\* addNodeToUpstream; on any other status and on a request that failed it
\* returns an error, and createUpstream returns it having issued no write.
C25_ExistenceCheck ==
    [][\A p \in Procs :
          pc[p] = "checkUpstreamExists" /\ pc'[p] # pc[p]
          => /\ sent'[p].status = 404 /\ sent'[p].attempts = 1
                => pc'[p] = "createUpstream_put"
             /\ sent'[p].status = 200 => pc'[p] = "addNodeToUpstream"
             /\ sent'[p].status \notin {200, 404} \/ sent'[p].attempts # 1
                => /\ Returns(p) /\ result'[p] = ErrCreateUpstream
                   /\ gateway' = gateway /\ writes'[p] = 0]_vars

\* A Register whose existence check was answered with status 500 returned
\* the create-upstream error without a write; the upstream is still absent.
C25_Witness ==
    \E p \in Procs :
        /\ Returned(p, "Register", ErrCreateUpstream)
        /\ sent[p].status = 500 /\ writes[p] = 0
        /\ ~gateway[UpstreamOf(p)].present

-----------------------------------------------------------------------------
(* C26 *)

\* C26: the upstream id of a Service is a function of its Config alone:
\* the id the Config supplies, unchanged, or else "{name}_{host}_{port}";
\* two Services built from the same name, host and port without an id hold
\* the same id; and no step changes the id of a Service once New returned
\* it.
C26_UpstreamIdFromConfig ==
    /\ [](\A i \in Instances :
            newErr[i] = Nil
            => svc[i].upstreamID =
                  IF cfg[i].UpstreamId # "" THEN cfg[i].UpstreamId
                  ELSE cfg[i].Name \o "_" \o cfg[i].Host \o "_"
                       \o ToString(cfg[i].Port))
    /\ [](\A i \in Instances, j \in Instances :
            /\ newErr[i] = Nil /\ newErr[j] = Nil
            /\ cfg[i].UpstreamId = "" /\ cfg[j].UpstreamId = ""
            /\ cfg[i].Name = cfg[j].Name /\ cfg[i].Host = cfg[j].Host
            /\ cfg[i].Port = cfg[j].Port
            => svc[i].upstreamID = svc[j].upstreamID)
    /\ [][\A i \in Instances :
            newErr[i] = Nil => svc'[i].upstreamID = svc[i].upstreamID]_vars

\* Two Services were built from the same name, host and port, one without
\* an id and one with the id "up"; the first holds the derived id and has
\* registered under it, the second holds "up".
C26_Witness ==
    /\ newErr["i1"] = Nil /\ newErr["i2"] = Nil
    /\ cfg["i1"].Port = cfg["i2"].Port
    /\ cfg["i1"].UpstreamId = "" /\ cfg["i2"].UpstreamId = SharedId
    /\ svc["i1"].upstreamID = "svc_10.0.0.5_9000"
    /\ svc["i2"].upstreamID = "up"
    /\ Returned(NewThread, "Register", Nil)
    /\ gateway["svc_10.0.0.5_9000"].present

-----------------------------------------------------------------------------
(* C27 *)

\* C27 as claimed: the body deleteNode builds for its PATCH carries the
\* nodes field only, with the nodeKey of the Service set to null.
C27_PatchBodyIsNodesOnly ==
    [][\A p \in Procs :
          pc[p] = "deleteNode" /\ pc'[p] = "deleteNode_patch"
          => /\ DOMAIN fetched'[p] = {"nodes"}
             /\ fetched'[p].nodes[KeyOf(InstOf(p))] = JNull]_vars

\* C27 as amended: the one write of deleteNode is a PATCH whose body is
\* the upstream document as fetched, name, type and every sibling node
\* with its weight included, with the nodeKey of the Service set to null
\* in its nodes.
C27_PatchBodyIsFetchedDocument ==
    [][\A p \in Procs :
          LET doc == gateway[UpstreamOf(p)]
              key == KeyOf(InstOf(p))
          IN
          /\ pc[p] = "deleteNode" /\ pc'[p] = "deleteNode_patch"
             => /\ fetched'[p].name = doc.name /\ fetched'[p].type = doc.type
                /\ DOMAIN fetched'[p].nodes = DOMAIN doc.nodes
                /\ fetched'[p].nodes[key] = JNull
                /\ \A k \in DOMAIN doc.nodes \ {key} :
                      fetched'[p].nodes[k] = JNum(doc.nodes[k])
                /\ writes'[p] = 0
          /\ pc[p] = "deleteNode_patch" /\ pc'[p] # pc[p]
             => Returns(p) /\ writes'[p] = 1]_vars

\* A Deregister holds its PATCH body: the document of another party's
\* upstream, name and type as fetched, the other party's node with its
\* weight, its own node null.
C27_Witness ==
    \E p \in Procs :
        /\ pc[p] = "deleteNode_patch"
        /\ fetched[p].name = "legacy" /\ fetched[p].type = "chash"
        /\ DOMAIN fetched[p].nodes = {LegacyKey, KeyOf(InstOf(p))}
        /\ fetched[p].nodes[LegacyKey] = JNum(2)
        /\ fetched[p].nodes[KeyOf(InstOf(p))] = JNull

-----------------------------------------------------------------------------
(* C28 *)

\* The Service of p is the only one that uses its upstream.
Alone(p) == \A j \in Instances \ {InstOf(p)} : svc[j].upstreamID # UpstreamOf(p)

\* The upstream of p after a single successful Register of its Service:
\* the document createUpstream creates, or the document of the other party
\* with the nodeKey added with weight 1.
AfterOneRegister(p) ==
    IF LegacyKey \in DOMAIN NodesOf(gateway, p)
    THEN [LegacyDoc EXCEPT !.nodes = (KeyOf(InstOf(p)) :> 1) @@ LegacyDoc.nodes]
    ELSE [present |-> TRUE, name |-> svc[InstOf(p)].name, type |-> "roundrobin",
          nodes |-> (KeyOf(InstOf(p)) :> 1)]

\* C28: every successful Register of a Service that has its upstream to
\* itself, the first as well as one that follows a Deregister, ends with
\* the upstream in the state a single Register leaves: the nodeKey present
\* with weight 1, the rest as a first registration leaves it.  Whether the
\* upstream began as another party's is not changed by any step.
C28_ReRegisterLikeFirst ==
    /\ [](\A p \in Procs :
            Alone(p) /\ Returned(p, "Register", Nil)
            => gateway[UpstreamOf(p)] = AfterOneRegister(p))
    /\ [][\A p \in Procs :
            Alone(p) => (LegacyKey \in DOMAIN NodesOf(gateway, p))
                        = (LegacyKey \in DOMAIN NodesOf(gateway', p))]_vars

\* Register, Deregister, Register without a failure: the third call found
\* the upstream it had created without its node, PUT it back with the
\* node, and the upstream is as the first Register left it.
C28_Witness ==
    \E p \in Procs :
        /\ Alone(p) /\ calls = 3 /\ faults = 0
        /\ Returned(p, "Register", Nil)
        /\ writes[p] = 1 /\ sent[p].status = 200
        /\ gateway[UpstreamOf(p)] =
              [present |-> TRUE, name |-> "svc", type |-> "roundrobin",
               nodes |-> ("10.0.0.5:9000" :> 1)]

-----------------------------------------------------------------------------
(* C29 *)

\* C29: when the Register inside StartWithGracefulShutdown fails, the
\* function returns that error in its next step, without a call of
\* StartHealthCheck and without a signal goroutine; the goroutine exists
\* only once Register and StartHealthCheck have both succeeded inside the
\* function; and the step that starts it is the step in which the function
\* returns nil, whether or not a signal has been delivered.
C29_StartStopsAtFailedRegister ==
    /\ [][\A p \in Procs :
            LET i == InstOf(p) IN
            /\ start[p].at = "Register" /\ pc[p] = "idle" /\ result[p] # Nil
               /\ start'[p] # start[p]
               => /\ start'[p] = Started(result[p])
                  /\ pc'[p] = "idle" /\ op'[p] = "Register"
                  /\ healthLog' = healthLog /\ listeners' = listeners
                  /\ handler'[i] = NoGoroutine
            /\ handler[i] = NoGoroutine /\ handler'[i] # NoGoroutine
               /\ ThreadOf(p) = "t1"
               => /\ start[p].at = "StartHealthCheck" /\ result[p] = Nil
                  /\ op[p] = "StartHealthCheck"
                  /\ start'[p] = Started(Nil)
                  /\ handler'[i].at = "waiting"]_vars
    /\ [](\A p \in Procs :
            start[p].at = "returned" /\ start[p].err # Nil
            => handler[InstOf(p)] = NoGoroutine)

\* StartWithGracefulShutdown returned the create-upstream error of its
\* Register: nothing was asked of the health service and there is no
\* goroutine, while a signal has been delivered.
C29_Witness ==
    /\ start[StartThread] = Started(ErrCreateUpstream)
    /\ op[StartThread] = "Register"
    /\ svc["i1"].healthCheck
    /\ healthLog["i1"] = NoLog
    /\ handler["i1"] = NoGoroutine
    /\ signal

-----------------------------------------------------------------------------
(* C30 *)

\* C30 as claimed: while a Service whose Deregister returned nil makes no
\* further call, its nodeKey, once absent from the upstream, stays absent
\* whatever the siblings do.
C30_DeregisteredKeyNeverReappears ==
    [][\A p \in Procs :
          LET k == KeyOf(InstOf(p)) IN
          /\ Returned(p, "Deregister", Nil) /\ pc'[p] = "idle"
          /\ k \notin DOMAIN NodesOf(gateway, p)
          => k \notin DOMAIN NodesOf(gateway', p)]_vars

\* C30 as amended: when a Deregister returns nil the nodeKey of its Service
\* is absent from the upstream, and while the Service makes no further
\* call the nodeKey comes back only by the write of a sibling that holds a
\* document with that nodeKey in it, fetched in a call during which the
\* upstream was written by another process.
C30_ReappearsOnlyByStaleWrite ==
    [][\A p \in Procs :
          LET k == KeyOf(InstOf(p)) IN
          /\ Returns(p) /\ op[p] = "Deregister" /\ result'[p] = Nil
             /\ UpstreamOf(p) # ""
             => k \notin DOMAIN NodesOf(gateway', p)
          /\ Returned(p, "Deregister", Nil) /\ pc'[p] = "idle"
             /\ k \notin DOMAIN NodesOf(gateway, p)
             /\ k \in DOMAIN NodesOf(gateway', p)
             => \E q \in Procs :
                   /\ InstOf(q) # InstOf(p) /\ UpstreamOf(q) = UpstreamOf(p)
                   /\ WriteBy(q) /\ ~undisturbed[q]
                   /\ k \in DOMAIN fetched[q].nodes
                   /\ fetched[q].nodes[k] # JNull]_vars

\* A Service registered and deregistered with success, its Deregister
\* having written; a sibling's Register that was under way meanwhile has
\* returned nil, and the nodeKey of the Service is in the upstream again.
C30_Witness ==
    \E p \in Procs, q \in Procs :
        /\ InstOf(q) # InstOf(p) /\ UpstreamOf(q) = UpstreamOf(p)
        /\ Returned(p, "Deregister", Nil) /\ writes[p] = 1
        /\ Returned(q, "Register", Nil) /\ writes[q] = 1 /\ ~undisturbed[q]
        /\ KeyOf(InstOf(p)) \in DOMAIN NodesOf(gateway, p)
        /\ KeyOf(InstOf(q)) \in DOMAIN NodesOf(gateway, p)

-----------------------------------------------------------------------------
(* C31 *)

\* C31 as claimed: on a Service with health checking enabled that has
\* started one self-hosted server, a Shutdown that returns nil leaves that
\* server stopped, whatever SetHealthHandler or SetHTTPServer calls came
\* between the start and the Shutdown.
C31_ShutdownStopsOwnListener ==
    [][\A p \in Procs :
          LET i == InstOf(p) IN
          /\ pc[p] = "Shutdown" /\ pc'[p] = "idle" /\ result'[p] = Nil
          /\ svc[i].healthCheck
          /\ Len(listeners[i]) = 1
          => listeners'[i][1] \notin {"serving", "draining"}]_vars

-----------------------------------------------------------------------------
(* C32 *)

\* C32 as claimed: a StartHealthCheck that creates a self-hosted server
\* and returns nil has a server that is serving; when the server did not
\* get the port the call returns the start-health-check error.
C32_StartFailsWhenNotServing ==
    [][\A p \in Procs :
          LET i == InstOf(p) IN
          /\ pc[p] = "StartHealthCheck" /\ pc'[p] = "idle"
          /\ svc[i].healthCheck /\ healthSvc[i].customHandler = "nil"
          => LET l == listeners'[i][healthSvc'[i].server] IN
             /\ result'[p] = Nil => l = "serving"
             /\ l # "serving" => result'[p] = ErrStartHealthCheck]_vars

-----------------------------------------------------------------------------
(* C33 *)

====
